---- MODULE Spec2Model ----
(***************************************************************************)
(* MedFlow: the dispatch-and-execution loop of the hospital cart           *)
(* simulation (pathfinding.ts, dispatcher.ts, the agent/job/simulation     *)
(* stores and the simulateTick interval callback of useSimulation).        *)
(*                                                                         *)
(* Units.  One tick advances the clock by SECONDS_PER_TICK = 0.1 s times   *)
(* the speed multiplier.  Times are kept in tenths of a second             *)
(* (TICKS_PER_SECOND units per second) and battery levels in tenths of a   *)
(* percent, so that 0.1 * chargeRate * speedMultiplier is an integer.      *)
(* Floating point rounding of the repeated 0.1 additions is not modelled.  *)
(*                                                                         *)
(* JS null / undefined: a missing position or path is the empty tuple, a   *)
(* missing id is the string "none"; optional numbers carry a flag.         *)
(***************************************************************************)
EXTENDS Integers, Sequences, FiniteSets, TLC

VARIABLES
  map,               \* useMapStore.map: floors and chargers
  agents,            \* useAgentStore.agents, in roster order
  jobs,              \* useJobStore.jobs
  currentTime,       \* useSimulationStore.currentTime
  config,            \* useSimulationStore.config
  currentPlan,       \* useSimulationStore.currentPlan (present = FALSE: null)
  replanCount,       \* useSimulationStore.replanCount
  agentStates,       \* agentStatesRef: agent id -> AgentActionState
  metrics,           \* metricsRef
  tickCount,         \* tickCountRef
  events,            \* useEventStore.events, most recent first
  lastReplanTime,    \* lastReplanTimeRef (valid = FALSE: -Infinity)
  lastQueuedJobIds,  \* lastQueuedJobIdsRef (the sorted, joined id list)
  call               \* the last direct call of a utility function: its
                     \* name, arguments and return value (fn = "none"
                     \* while the simulation loop is the only caller)

vars == <<map, agents, jobs, currentTime, config, currentPlan, replanCount,
          agentStates, metrics, tickCount, events, lastReplanTime,
          lastQueuedJobIds, call>>

----------------------------------------------------------------------------
(* Program constants *)

TICKS_PER_SECOND == 10          \* 1 / SECONDS_PER_TICK
REPLAN_COOLDOWN == 5            \* seconds
CRITICAL_BATTERY == 5           \* percent
LOW_BATTERY == 20               \* percent
CHARGED_BATTERY == 95           \* percent
MIN_REMAINING_BATTERY == 10     \* percent
DEFAULT_CHARGE_RATE == 5        \* percent per second
DEFAULT_ACTION_DURATION == 2    \* seconds
DEFAULT_STARVATION == 300       \* seconds
STARVATION_CAP == 500
TIER_WEIGHT == 1000
LATE_BUFFER == 120              \* seconds
ETA_START == 60                 \* seconds
ETA_DELIVERY == 180             \* seconds
EVENT_CAP == 1000

Secs(n) == n * TICKS_PER_SECOND     \* n seconds in clock units
Pct(n) == n * TICKS_PER_SECOND      \* n percent in battery units

Max(a, b) == IF a >= b THEN a ELSE b
Min(a, b) == IF a <= b THEN a ELSE b
Abs(a) == IF a >= 0 THEN a ELSE -a

Null == << >>
NoId == "none"
NoCall == [fn |-> "none"]

----------------------------------------------------------------------------
(* pathfinding.ts *)

\* grid[y]?.[x] is defined exactly for the positions stored in the grid.
HasCell(floor, pos) == pos \in DOMAIN floor.grid

isValidPosition(pos, rows, cols) ==
  pos[1] >= 0 /\ pos[1] < cols /\ pos[2] >= 0 /\ pos[2] < rows

\* Mutation of isCellWalkable: the access check is dropped.
\* C13_RestrictedCellsRespected fails under it.
isCellWalkable_IgnoreAccess(cell, agent) ==
  cell.walkable /\ ~cell.isObstacle /\ ~cell.isQuarantine

\* Mutation of isCellWalkable: the quarantine flag is not looked at.
\* C14_QuarantineNeverEntered fails under it.
isCellWalkable_IgnoreQuarantine(cell, agent) ==
  IF ~cell.walkable THEN FALSE
  ELSE IF cell.isObstacle THEN FALSE
  ELSE IF cell.isRestricted /\ agent.present
            /\ cell.restrictedAccessProfiles # {}
            /\ agent.accessProfiles \cap cell.restrictedAccessProfiles = {}
       THEN FALSE
  ELSE TRUE

\* agent.present = FALSE stands for the omitted optional agent argument.
isCellWalkable(cell, agent) ==
  IF ~cell.walkable THEN FALSE
  ELSE IF cell.isObstacle THEN FALSE
  ELSE IF cell.isQuarantine THEN FALSE
  ELSE IF cell.isRestricted /\ agent.present
            /\ cell.restrictedAccessProfiles # {}
            /\ agent.accessProfiles \cap cell.restrictedAccessProfiles = {}
       THEN FALSE
  ELSE TRUE

heuristic(a, b) == Abs(a[1] - b[1]) + Abs(a[2] - b[2])

\* Mutation of InsertByF: the open set is kept in descending order of f,
\* so the search expands the least promising node first.
\* C11_PathIsShortest fails under it.
RECURSIVE InsertByF_Descending(_, _)
InsertByF_Descending(sorted, node) ==
  IF sorted = << >> THEN <<node>>
  ELSE IF node.f > Head(sorted).f THEN <<node>> \o sorted
  ELSE <<Head(sorted)>> \o InsertByF_Descending(Tail(sorted), node)

\* Array.prototype.sort with (a, b) => a.f - b.f: a stable sort by f.
RECURSIVE InsertByF(_, _)
InsertByF(sorted, node) ==
  IF sorted = << >> THEN <<node>>
  ELSE IF node.f < Head(sorted).f THEN <<node>> \o sorted
  ELSE <<Head(sorted)>> \o InsertByF(Tail(sorted), node)

RECURSIVE SortByF(_)
SortByF(open) ==
  IF open = << >> THEN << >>
  ELSE InsertByF(SortByF(SubSeq(open, 1, Len(open) - 1)), open[Len(open)])

Neighbors(p) ==
  << <<p[1] + 1, p[2]>>, <<p[1] - 1, p[2]>>,
     <<p[1], p[2] + 1>>, <<p[1], p[2] - 1>> >>

\* One pass of the inner "for (const neighbor of neighbors)" loop.  A node
\* carries the path from the start to itself instead of a parent pointer:
\* a parent is always a node already removed from the open set, and such a
\* node is never changed again, so reconstructPath yields exactly this path.
RECURSIVE ExpandNeighbors(_, _, _, _, _, _, _)
ExpandNeighbors(floor, end, agent, current, closed, open, k) ==
  IF k > 4 THEN open
  ELSE
    LET nb == Neighbors(current.pos)[k]
        skip == \/ ~isValidPosition(nb, floor.height, floor.width)
                \/ nb \in closed
                \/ ~HasCell(floor, nb)
                \/ ~isCellWalkable(floor.grid[nb], agent)
        g == current.g + 1
        h == heuristic(nb, end)
        idx == {i \in 1..Len(open) : open[i].pos = nb}
        open2 ==
          IF skip THEN open
          ELSE IF idx # {}
            THEN LET i == CHOOSE j \in idx : \A m \in idx : j <= m
                 IN IF g < open[i].g
                      THEN [open EXCEPT ![i] =
                              [pos |-> nb, g |-> g, h |-> h, f |-> g + h,
                               path |-> Append(current.path, nb)]]
                      ELSE open
            ELSE Append(open, [pos |-> nb, g |-> g, h |-> h, f |-> g + h,
                               path |-> Append(current.path, nb)])
    IN ExpandNeighbors(floor, end, agent, current, closed, open2, k + 1)

\* The "while (openSet.length > 0)" loop.
RECURSIVE AStarLoop(_, _, _, _, _)
AStarLoop(floor, end, agent, open, closed) ==
  IF open = << >> THEN Null
  ELSE
    LET sorted == SortByF(open)
        current == Head(sorted)
    IN IF current.pos = end THEN current.path
       ELSE AStarLoop(floor, end, agent,
                      ExpandNeighbors(floor, end, agent, current,
                                      closed \cup {current.pos},
                                      Tail(sorted), 1),
                      closed \cup {current.pos})

\* Mutation of findPath: the start cell must be walkable as well.
\* C12_NoPathExactlyWhenUnreachable fails under it.
findPath_StartChecked(floor, start, end, agent) ==
  IF ~isValidPosition(start, floor.height, floor.width)
       \/ ~isValidPosition(end, floor.height, floor.width) THEN Null
  ELSE IF ~HasCell(floor, start) \/ ~HasCell(floor, end) THEN Null
  ELSE IF ~isCellWalkable(floor.grid[end], agent)
            \/ ~isCellWalkable(floor.grid[start], agent) THEN Null
  ELSE AStarLoop(floor, end, agent,
                 << [pos |-> start, g |-> 0, h |-> heuristic(start, end),
                     f |-> heuristic(start, end), path |-> <<start>>] >>,
                 {})

\* findPath: the path from start to end inclusive, or Null.
findPath(floor, start, end, agent) ==
  IF ~isValidPosition(start, floor.height, floor.width)
       \/ ~isValidPosition(end, floor.height, floor.width) THEN Null
  ELSE IF ~HasCell(floor, start) \/ ~HasCell(floor, end) THEN Null
  ELSE IF ~isCellWalkable(floor.grid[end], agent) THEN Null
  ELSE AStarLoop(floor, end, agent,
                 << [pos |-> start, g |-> 0, h |-> heuristic(start, end),
                     f |-> heuristic(start, end), path |-> <<start>>] >>,
                 {})

getPathLength(path) == Len(path) - 1

getPathBatteryDrain(path, drainRate) == getPathLength(path) * drainRate

----------------------------------------------------------------------------
(* dispatcher.ts *)

PRIORITY_ORDER(p) ==
  CASE p = "IMMEDIATE" -> 0
    [] p = "EMERGENCY" -> 1
    [] p = "URGENT" -> 2
    [] p = "SEMI_URGENT" -> 3
    [] p = "NON_URGENT" -> 4

\* The score in units of 1/TICKS_PER_SECOND (all terms are scaled alike, so
\* the order of two scores is the order of the source's scores).
\* Mutation of calculateEffectivePriority: a tier is worth 100 and not
\* 1000.  C15_TierWinsWithinItsMargin fails under it.
calculateEffectivePriority_NarrowTiers(job, now, starvationThreshold) ==
  LET waitTime == now - job.createdAt
      starved == waitTime > starvationThreshold /\ job.priority # "IMMEDIATE"
  IN PRIORITY_ORDER(job.priority) * Secs(100)
       + Max(0, job.deadline - now)
       - (IF starved
            THEN Min(waitTime - starvationThreshold, Secs(STARVATION_CAP))
            ELSE 0)

\* Mutation of calculateEffectivePriority: the discount has no cap.
\* C16_StarvationNeverCrossesTier fails under it.
calculateEffectivePriority_NoCap(job, now, starvationThreshold) ==
  LET waitTime == now - job.createdAt
      starved == waitTime > starvationThreshold /\ job.priority # "IMMEDIATE"
  IN PRIORITY_ORDER(job.priority) * Secs(TIER_WEIGHT)
       + Max(0, job.deadline - now)
       - (IF starved THEN waitTime - starvationThreshold ELSE 0)

\* Mutation of calculateEffectivePriority: IMMEDIATE jobs are discounted
\* like the others.  C17_StarvationDiscount fails under it.
calculateEffectivePriority_NoExemption(job, now, starvationThreshold) ==
  LET waitTime == now - job.createdAt
  IN PRIORITY_ORDER(job.priority) * Secs(TIER_WEIGHT)
       + Max(0, job.deadline - now)
       - (IF waitTime > starvationThreshold
            THEN Min(waitTime - starvationThreshold, Secs(STARVATION_CAP))
            ELSE 0)

calculateEffectivePriority(job, now, starvationThreshold) ==
  LET base == PRIORITY_ORDER(job.priority) * Secs(TIER_WEIGHT)
      timeToDeadline == job.deadline - now
      waitTime == now - job.createdAt
      starved == waitTime > starvationThreshold /\ job.priority # "IMMEDIATE"
  IN base + Max(0, timeToDeadline)
       - (IF starved
            THEN Min(waitTime - starvationThreshold, Secs(STARVATION_CAP))
            ELSE 0)

\* sortJobsByPriority calls calculateEffectivePriority without a threshold
\* argument, so the default of 300 s applies.
JobScore(job, now) ==
  calculateEffectivePriority(job, now, Secs(DEFAULT_STARVATION))

RECURSIVE InsertByScore(_, _, _)
InsertByScore(sorted, job, now) ==
  IF sorted = << >> THEN <<job>>
  ELSE IF JobScore(job, now) < JobScore(Head(sorted), now)
    THEN <<job>> \o sorted
  ELSE <<Head(sorted)>> \o InsertByScore(Tail(sorted), job, now)

RECURSIVE sortJobsByPriority(_, _)
sortJobsByPriority(js, now) ==
  IF js = << >> THEN << >>
  ELSE InsertByScore(sortJobsByPriority(SubSeq(js, 1, Len(js) - 1), now),
                     js[Len(js)], now)

\* Array.prototype.find on the floor list: the first floor with that id.
HasFloor(m, floorId) == \E i \in 1..Len(m.floors) : m.floors[i].id = floorId

FindFloor(m, floorId) ==
  m.floors[CHOOSE i \in 1..Len(m.floors) :
             /\ m.floors[i].id = floorId
             /\ \A k \in 1..(i - 1) : m.floors[k].id # floorId]

AsPathAgent(a) == [present |-> TRUE, accessProfiles |-> a.accessProfiles]

NoAgent == [present |-> FALSE, accessProfiles |-> {}]

\* job.pickup?.position || { x: 0, y: 0 }
PickupPosOrOrigin(job) == IF job.hasPickup THEN job.pickup.position ELSE <<0, 0>>

\* The candidate loop of findBestAgentForJob: best is the agent kept so
\* far (Null for none), bestScore its distance (valid only with best).
\* ConsiderCandidate is the loop body for pool[k], given its two paths.
RECURSIVE BestCandidate(_, _, _, _, _, _)
RECURSIVE ConsiderCandidate(_, _, _, _, _, _, _, _)
ConsiderCandidate_NoReserve(job, floor, pool, k, best, bestScore, toPickup, toDropoff) ==
  LET agent == pool[k]
      totalDistance == Len(toPickup) + Len(toDropoff)
      rejected == \/ agent.floorId # job.dropoff.floorId
                  \/ toPickup = Null
                  \/ toDropoff = Null
  IN IF rejected THEN BestCandidate(job, floor, pool, k + 1, best, bestScore)
     ELSE IF best = Null \/ totalDistance < bestScore
       THEN BestCandidate(job, floor, pool, k + 1, <<agent>>, totalDistance)
     ELSE BestCandidate(job, floor, pool, k + 1, best, bestScore)

ConsiderCandidate(job, floor, pool, k, best, bestScore, toPickup, toDropoff) ==
  LET agent == pool[k]
      totalDrain == getPathBatteryDrain(toPickup, agent.batteryDrainRate)
                    + getPathBatteryDrain(toDropoff, agent.batteryDrainRate)
      totalDistance == Len(toPickup) + Len(toDropoff)
      rejected == \/ agent.floorId # job.dropoff.floorId
                  \/ toPickup = Null
                  \/ toDropoff = Null
                  \/ agent.battery - totalDrain < Pct(MIN_REMAINING_BATTERY)
  IN IF rejected THEN BestCandidate(job, floor, pool, k + 1, best, bestScore)
     ELSE IF best = Null \/ totalDistance < bestScore
       THEN BestCandidate(job, floor, pool, k + 1, <<agent>>, totalDistance)
     ELSE BestCandidate(job, floor, pool, k + 1, best, bestScore)

BestCandidate(job, floor, pool, k, best, bestScore) ==
  IF k > Len(pool) THEN best
  ELSE ConsiderCandidate(
         job, floor, pool, k, best, bestScore,
         findPath(floor, pool[k].position, PickupPosOrOrigin(job),
                  AsPathAgent(pool[k])),
         findPath(floor, PickupPosOrOrigin(job), job.dropoff.position,
                  AsPathAgent(pool[k])))

findBestAgentForJob_AnyBattery(job, ags, m) ==
  LET Available(a) == a.status = "IDLE" /\ a.currentJobId = NoId
      availableAgents == SelectSeq(ags, Available)
      isUrgentJob == job.priority \in {"IMMEDIATE", "EMERGENCY"}
      Preferred(a) == IF isUrgentJob THEN a.pool = "URGENT"
                                     ELSE a.pool = "NON_URGENT"
      Borrowed(a) == a.pool = "NON_URGENT"
      pool1 == SelectSeq(availableAgents, Preferred)
      pool2 == IF pool1 = << >> /\ isUrgentJob
                 THEN SelectSeq(availableAgents, Borrowed) ELSE pool1
      pool3 == IF pool2 = << >> THEN availableAgents ELSE pool2
      CanCarry(a) == a.payloadLimit >= job.weight
      poolAgents == SelectSeq(pool3, CanCarry)
  IN IF availableAgents = << >> THEN Null
     ELSE IF poolAgents = << >> THEN Null
     ELSE IF ~HasFloor(m, job.dropoff.floorId) THEN Null
     ELSE BestCandidate(job, FindFloor(m, job.dropoff.floorId), poolAgents,
                        1, Null, 0)

findBestAgentForJob_AnyPool(job, ags, m) ==
  LET Available(a) == a.status = "IDLE" /\ a.currentJobId = NoId
                        /\ a.battery > Pct(LOW_BATTERY)
      availableAgents == SelectSeq(ags, Available)
      CanCarry(a) == a.payloadLimit >= job.weight
      poolAgents == SelectSeq(availableAgents, CanCarry)
  IN IF availableAgents = << >> THEN Null
     ELSE IF poolAgents = << >> THEN Null
     ELSE IF ~HasFloor(m, job.dropoff.floorId) THEN Null
     ELSE BestCandidate(job, FindFloor(m, job.dropoff.floorId), poolAgents,
                        1, Null, 0)

findBestAgentForJob_NoBorrowing(job, ags, m) ==
  LET Available(a) == a.status = "IDLE" /\ a.currentJobId = NoId
                        /\ a.battery > Pct(LOW_BATTERY)
      availableAgents == SelectSeq(ags, Available)
      isUrgentJob == job.priority \in {"IMMEDIATE", "EMERGENCY"}
      Preferred(a) == IF isUrgentJob THEN a.pool = "URGENT"
                                     ELSE a.pool = "NON_URGENT"
      CanCarry(a) == a.payloadLimit >= job.weight
      poolAgents == SelectSeq(SelectSeq(availableAgents, Preferred), CanCarry)
  IN IF availableAgents = << >> THEN Null
     ELSE IF poolAgents = << >> THEN Null
     ELSE IF ~HasFloor(m, job.dropoff.floorId) THEN Null
     ELSE BestCandidate(job, FindFloor(m, job.dropoff.floorId), poolAgents,
                        1, Null, 0)

\* findBestAgentForJob: <<agent>> for the chosen agent, Null for none.
findBestAgentForJob(job, ags, m) ==
  LET Available(a) == a.status = "IDLE" /\ a.currentJobId = NoId
                        /\ a.battery > Pct(LOW_BATTERY)
      availableAgents == SelectSeq(ags, Available)
      isUrgentJob == job.priority \in {"IMMEDIATE", "EMERGENCY"}
      Preferred(a) == IF isUrgentJob THEN a.pool = "URGENT"
                                     ELSE a.pool = "NON_URGENT"
      Borrowed(a) == a.pool = "NON_URGENT"
      pool1 == SelectSeq(availableAgents, Preferred)
      pool2 == IF pool1 = << >> /\ isUrgentJob
                 THEN SelectSeq(availableAgents, Borrowed) ELSE pool1
      pool3 == IF pool2 = << >> THEN availableAgents ELSE pool2
      CanCarry(a) == a.payloadLimit >= job.weight
      poolAgents == SelectSeq(pool3, CanCarry)
  IN IF availableAgents = << >> THEN Null
     ELSE IF poolAgents = << >> THEN Null
     ELSE IF ~HasFloor(m, job.dropoff.floorId) THEN Null
     ELSE BestCandidate(job, FindFloor(m, job.dropoff.floorId), poolAgents,
                        1, Null, 0)

\* Route steps for one leg: one step per path cell, 1 / agent.speed apart.
LegSteps_EndsOnly(path, floorId, time, stepTime) ==
  [i \in 1..Min(2, Len(path)) |->
     [position |-> path[IF i = 1 THEN 1 ELSE Len(path)], floorId |-> floorId,
      arrivalTime |-> time + (i - 1) * stepTime,
      action |-> "NONE", duration |-> 0]]

LegSteps(path, floorId, time, stepTime) ==
  [i \in 1..Len(path) |->
     [position |-> path[i], floorId |-> floorId,
      arrivalTime |-> time + (i - 1) * stepTime,
      action |-> "NONE", duration |-> 0]]

ActionStep(pos, floorId, time, action, duration) ==
  [position |-> pos, floorId |-> floorId, arrivalTime |-> time,
   action |-> action, duration |-> duration]

\* createAgentPlan from the two paths on: <<plan>>, or Null when a leg has
\* no path.  agent.speed is a whole number of cells per second here;
\* energies are kept in hundredths of a Wh (path.length * 0.1 Wh is
\* 10 * path.length) and estimatedCO2, a fixed multiple of the energy, is
\* left out.  pathToPickup is read only when the job has a pickup.
RouteFromPaths(agent, job, floorId, now, pathToPickup, pathToDropoff) ==
  LET stepTime == TICKS_PER_SECOND \div agent.speed
      pickupLeg ==
        IF job.hasPickup
          THEN LegSteps(pathToPickup, floorId, now, stepTime)
               \o <<ActionStep(job.pickup.position, floorId,
                               now + Len(pathToPickup) * stepTime,
                               "PICKUP", job.pickupServiceTime)>>
          ELSE << >>
      time2 == IF job.hasPickup
                 THEN now + Len(pathToPickup) * stepTime
                        + job.pickupServiceTime
                 ELSE now
      dropoffLeg ==
        LegSteps(pathToDropoff, floorId, time2, stepTime)
        \o <<ActionStep(job.dropoff.position, floorId,
                        time2 + Len(pathToDropoff) * stepTime,
                        "DROPOFF", job.dropoffServiceTime)>>
  IN IF job.hasPickup /\ pathToPickup = Null THEN Null
     ELSE IF pathToDropoff = Null THEN Null
     ELSE << [agentId |-> agent.id,
              route |-> pickupLeg \o dropoffLeg,
              jobIds |-> <<job.id>>,
              estimatedEnergy |->
                TICKS_PER_SECOND
                  * ((IF job.hasPickup THEN Len(pathToPickup) ELSE 0)
                       + Len(pathToDropoff))] >>

createAgentPlan(agent, job, m, now) ==
  IF ~HasFloor(m, agent.floorId) THEN Null
  ELSE RouteFromPaths(
         agent, job, FindFloor(m, agent.floorId).id, now,
         IF job.hasPickup
           THEN findPath(FindFloor(m, agent.floorId), agent.position,
                         job.pickup.position, AsPathAgent(agent))
           ELSE Null,
         findPath(FindFloor(m, agent.floorId),
                  IF job.hasPickup THEN job.pickup.position
                                   ELSE agent.position,
                  job.dropoff.position, AsPathAgent(agent)))

\* The "for (const job of sortedJobs)" loop of createPlan.  AssignJobs
\* looks for the best agent among those no route claims yet, AssignBest
\* builds that agent's route and AssignRoute records the outcome.
RECURSIVE AssignJobs(_, _, _, _, _, _, _)
RECURSIVE AssignBest(_, _, _, _, _, _, _, _)
RECURSIVE AssignRoute(_, _, _, _, _, _, _, _)
AssignRoute(sortedJobs, k, ags, m, now, agentPlans, unassignedJobIds, plan) ==
  IF plan # Null
    THEN AssignJobs(sortedJobs, k + 1, ags, m, now,
                    agentPlans \o plan, unassignedJobIds)
    ELSE AssignJobs(sortedJobs, k + 1, ags, m, now,
                    agentPlans, Append(unassignedJobIds, sortedJobs[k].id))

AssignBest(sortedJobs, k, ags, m, now, agentPlans, unassignedJobIds, best) ==
  AssignRoute(sortedJobs, k, ags, m, now, agentPlans, unassignedJobIds,
              IF best = Null THEN Null
              ELSE createAgentPlan(best[1], sortedJobs[k], m, now))

AssignJobs_Reclaiming(sortedJobs, k, ags, m, now, agentPlans, unassignedJobIds) ==
  IF k > Len(sortedJobs)
    THEN [agentPlans |-> agentPlans, unassignedJobIds |-> unassignedJobIds]
  ELSE AssignBest(sortedJobs, k, ags, m, now, agentPlans, unassignedJobIds,
                  findBestAgentForJob(sortedJobs[k], ags, m))

AssignJobs(sortedJobs, k, ags, m, now, agentPlans, unassignedJobIds) ==
  IF k > Len(sortedJobs)
    THEN [agentPlans |-> agentPlans, unassignedJobIds |-> unassignedJobIds]
  ELSE
    LET Unclaimed(a) == \A i \in 1..Len(agentPlans) :
                           agentPlans[i].agentId # a.id
    IN AssignBest(sortedJobs, k, ags, m, now, agentPlans, unassignedJobIds,
                  findBestAgentForJob(sortedJobs[k],
                                      SelectSeq(ags, Unclaimed), m))

RECURSIVE SumEnergy(_)
SumEnergy(agentPlans) ==
  IF agentPlans = << >> THEN 0
  ELSE Head(agentPlans).estimatedEnergy + SumEnergy(Tail(agentPlans))

\* The plan object createPlan returns for the outcome of the loop.
PlanOf(res, now) ==
  [present |-> TRUE,
   timestamp |-> now,
   agentPlans |-> res.agentPlans,
   unassignedJobIds |-> res.unassignedJobIds,
   metrics |-> [totalEnergyWh |-> SumEnergy(res.agentPlans),
                idleWaitingSeconds |-> 0,
                idleChargingSeconds |-> 0]]

\* Mutation of createPlan: the dispatcher remembers the agents of the plan
\* it returned last and passes them over.  C18_CreatePlanIsPure fails
\* under it.
createPlan_Remembering(js, ags, m, now) ==
  LET Queued(j) == j.state = "QUEUED"
      Fresh(a) == \/ call.fn # "createPlan"
                  \/ \A i \in 1..Len(call.result.agentPlans) :
                       call.result.agentPlans[i].agentId # a.id
  IN PlanOf(AssignJobs(sortJobsByPriority(SelectSeq(js, Queued), now),
                       1, SelectSeq(ags, Fresh), m, now, << >>, << >>),
            now)

createPlan(js, ags, m, now) ==
  LET Queued(j) == j.state = "QUEUED"
  IN PlanOf(AssignJobs(sortJobsByPriority(SelectSeq(js, Queued), now),
                       1, ags, m, now, << >>, << >>),
            now)

\* grid[y]?.[x]?.walkable
WalkableFlag(floor, pos) == HasCell(floor, pos) /\ floor.grid[pos].walkable

\* Mutation of checkJobFeasibility: an agent must be able to carry more
\* than the item's weight.  C20_AssignedJobsAreFeasible fails under it.
checkJobFeasibility_StrictWeight(job, ags, m) ==
  IF ~HasFloor(m, job.dropoff.floorId)
    THEN [feasible |-> FALSE, reason |-> "Floor not found"]
  ELSE IF ~WalkableFlag(FindFloor(m, job.dropoff.floorId),
                        job.dropoff.position)
    THEN [feasible |-> FALSE, reason |-> "Dropoff location not walkable"]
  ELSE IF ~\E i \in 1..Len(ags) : ags[i].payloadLimit > job.weight
    THEN [feasible |-> FALSE, reason |-> "No agent can handle payload weight"]
  ELSE IF job.hasPickup
            /\ ~WalkableFlag(FindFloor(m, job.dropoff.floorId),
                             job.pickup.position)
    THEN [feasible |-> FALSE, reason |-> "Pickup location not walkable"]
  ELSE [feasible |-> TRUE, reason |-> NoId]

checkJobFeasibility(job, ags, m) ==
  IF ~HasFloor(m, job.dropoff.floorId)
    THEN [feasible |-> FALSE, reason |-> "Floor not found"]
  ELSE IF ~WalkableFlag(FindFloor(m, job.dropoff.floorId),
                        job.dropoff.position)
    THEN [feasible |-> FALSE, reason |-> "Dropoff location not walkable"]
  ELSE IF ~\E i \in 1..Len(ags) : ags[i].payloadLimit >= job.weight
    THEN [feasible |-> FALSE, reason |-> "No agent can handle payload weight"]
  ELSE IF job.hasPickup
            /\ ~WalkableFlag(FindFloor(m, job.dropoff.floorId),
                             job.pickup.position)
    THEN [feasible |-> FALSE, reason |-> "Pickup location not walkable"]
  ELSE [feasible |-> TRUE, reason |-> NoId]

NoPlan ==
  [present |-> FALSE, timestamp |-> 0, agentPlans |-> << >>,
   unassignedJobIds |-> << >>,
   metrics |-> [totalEnergyWh |-> 0, idleWaitingSeconds |-> 0,
                idleChargingSeconds |-> 0]]

----------------------------------------------------------------------------
(* Agent store *)

setAgentPosition(ags, agentId, position, floorId) ==
  [i \in DOMAIN ags |->
     IF ags[i].id = agentId
       THEN [ags[i] EXCEPT !.position = position, !.floorId = floorId]
       ELSE ags[i]]

setAgentStatus(ags, agentId, status) ==
  [i \in DOMAIN ags |->
     IF ags[i].id = agentId THEN [ags[i] EXCEPT !.status = status]
                            ELSE ags[i]]

\* Mutation of drainBattery: no floor at 0.  C9_BatteryInRange fails under it.
drainBattery_NoFloor(ags, agentId, amount) ==
  [i \in DOMAIN ags |->
     IF ags[i].id = agentId THEN [ags[i] EXCEPT !.battery = @ - amount]
                            ELSE ags[i]]

drainBattery(ags, agentId, amount) ==
  [i \in DOMAIN ags |->
     IF ags[i].id = agentId
       THEN [ags[i] EXCEPT !.battery = Max(0, @ - amount)]
       ELSE ags[i]]

chargeBattery(ags, agentId, amount) ==
  [i \in DOMAIN ags |->
     IF ags[i].id = agentId
       THEN [ags[i] EXCEPT !.battery = Min(ags[i].maxBattery, @ + amount)]
       ELSE ags[i]]

assignJob(ags, agentId, jobId) ==
  [i \in DOMAIN ags |->
     IF ags[i].id = agentId
       THEN [ags[i] EXCEPT !.currentJobId = jobId, !.status = "MOVING"]
       ELSE ags[i]]

clearJob(ags, agentId) ==
  [i \in DOMAIN ags |->
     IF ags[i].id = agentId
       THEN [ags[i] EXCEPT !.currentJobId = NoId, !.currentPayload = 0,
                           !.status = "IDLE"]
       ELSE ags[i]]

setPayload(ags, agentId, payload) ==
  [i \in DOMAIN ags |->
     IF ags[i].id = agentId THEN [ags[i] EXCEPT !.currentPayload = payload]
                            ELSE ags[i]]

----------------------------------------------------------------------------
(* Job store *)

NoProgress ==
  [present |-> FALSE, pickedUp |-> FALSE, hasPickupTime |-> FALSE,
   pickupTime |-> 0, hasDeliveredTime |-> FALSE, deliveredTime |-> 0]

setJobState(js, jobId, newState) ==
  [i \in DOMAIN js |->
     IF js[i].id = jobId THEN [js[i] EXCEPT !.state = newState] ELSE js[i]]

\* Mutation of assignAgent: the agent is recorded, the state is left as it
\* was.  C4_Lifecycle fails under it.
assignAgent_KeepState(js, jobId, agentId) ==
  [i \in DOMAIN js |->
     IF js[i].id = jobId THEN [js[i] EXCEPT !.assignedAgentId = agentId]
                         ELSE js[i]]

assignAgent(js, jobId, agentId) ==
  [i \in DOMAIN js |->
     IF js[i].id = jobId
       THEN [js[i] EXCEPT !.assignedAgentId = agentId, !.state = "ASSIGNED"]
       ELSE js[i]]

markPickedUp(js, jobId, time) ==
  [i \in DOMAIN js |->
     IF js[i].id = jobId
       THEN [js[i] EXCEPT !.progress.present = TRUE,
                          !.progress.pickedUp = TRUE,
                          !.progress.hasPickupTime = TRUE,
                          !.progress.pickupTime = time,
                          !.state = "IN_PROGRESS"]
       ELSE js[i]]

markDelivered(js, jobId, time) ==
  [i \in DOMAIN js |->
     IF js[i].id = jobId
       THEN [js[i] EXCEPT !.progress.present = TRUE,
                          !.progress.pickedUp =
                             IF js[i].progress.present THEN @ ELSE TRUE,
                          !.progress.hasDeliveredTime = TRUE,
                          !.progress.deliveredTime = time,
                          !.state = "DELIVERED"]
       ELSE js[i]]

updateETAs(js, jobId, startTime, deliveryTime, isLate) ==
  [i \in DOMAIN js |->
     IF js[i].id = jobId
       THEN [js[i] EXCEPT !.estimatedStartTime = startTime,
                          !.estimatedDeliveryTime = deliveryTime,
                          !.hasEta = TRUE,
                          !.isLikelyLate = isLate]
       ELSE js[i]]

\* jobs.find((j) => j.id === jobId) on a job list
HasJob(js, jobId) == \E i \in DOMAIN js : js[i].id = jobId

FindJob(js, jobId) ==
  js[CHOOSE i \in DOMAIN js :
       js[i].id = jobId /\ \A k \in 1..(i - 1) : js[k].id # jobId]

\* job.progress?.pickedUp and job.progress?.deliveredTime as truth values
\* (a delivered time is a tick time, hence positive and truthy).
PickedUp(job) == job.progress.present /\ job.progress.pickedUp

HasDelivered(job) ==
  job.progress.present /\ job.progress.hasDeliveredTime
    /\ job.progress.deliveredTime # 0

----------------------------------------------------------------------------
(* Event store *)

addEvent(evs, type, timestamp, agentId, jobId) ==
  LET all == <<[type |-> type, timestamp |-> timestamp,
                agentId |-> agentId, jobId |-> jobId]>> \o evs
  IN IF Len(all) > EVENT_CAP THEN SubSeq(all, 1, EVENT_CAP) ELSE all

----------------------------------------------------------------------------
(* useSimulation: the tick executor *)

DefaultAgentState ==
  [currentStepIndex |-> -1, actionStarted |-> FALSE, actionStartTime |-> 0,
   targetChargerPosition |-> Null, routeCompleted |-> FALSE]

\* getAgentState: the entry of the agent, created on first use.
getAgentState(states, agentId) ==
  IF agentId \in DOMAIN states THEN states
  ELSE (agentId :> DefaultAgentState) @@ states

\* simCurrentPlan?.agentPlans.find((p) => p.agentId === agent.id)
PlanIdx(plan, agentId) ==
  {i \in 1..Len(plan.agentPlans) : plan.agentPlans[i].agentId = agentId}

HasAgentPlan(plan, agentId) == plan.present /\ PlanIdx(plan, agentId) # {}

FindAgentPlan(plan, agentId) ==
  plan.agentPlans[CHOOSE i \in PlanIdx(plan, agentId) :
                    \A k \in PlanIdx(plan, agentId) : i <= k]

\* Array.prototype.find as an optional value: <<first element>> or Null.
FirstOrNull(hits) == IF hits = << >> THEN Null ELSE <<Head(hits)>>

\* currentMap.chargers.find(...) for the charger at a cell of a floor
ChargerAt(m, floorId, pos) ==
  LET T(c) == c.floorId = floorId /\ c.position = pos
  IN FirstOrNull(SelectSeq(m.chargers, T))

\* currentMap.chargers.find((c) => c.floorId === agent.floorId)
ChargerOnFloor(m, floorId) ==
  LET T(c) == c.floorId = floorId
  IN FirstOrNull(SelectSeq(m.chargers, T))

\* setAgentPosition(path[1]) + drainBattery + setAgentStatus('MOVING') and
\* the energy metric; kind says which moving-time metric the branch counts:
\* "without", "byPayload" or "none".
MoveOneCell_Leap(s, agent, path, dt, kind) ==
  [s EXCEPT
     !.agents = setAgentStatus(
                  drainBattery(
                    setAgentPosition(@, agent.id, path[Len(path)],
                                     agent.floorId),
                    agent.id, agent.batteryDrainRate),
                  agent.id, "MOVING"),
     !.metrics.totalEnergyWh = @ + agent.batteryDrainRate,
     !.metrics.movingWithoutPayload =
        IF kind = "without" \/ (kind = "byPayload" /\ agent.currentPayload = 0)
          THEN @ + dt ELSE @,
     !.metrics.movingWithPayload =
        IF kind = "byPayload" /\ agent.currentPayload # 0
          THEN @ + dt ELSE @]

MoveOneCell(s, agent, path, dt, kind) ==
  [s EXCEPT
     !.agents = setAgentStatus(
                  drainBattery(
                    setAgentPosition(@, agent.id, path[2], agent.floorId),
                    agent.id, agent.batteryDrainRate),
                  agent.id, "MOVING"),
     !.metrics.totalEnergyWh = @ + agent.batteryDrainRate,
     !.metrics.movingWithoutPayload =
        IF kind = "without" \/ (kind = "byPayload" /\ agent.currentPayload = 0)
          THEN @ + dt ELSE @,
     !.metrics.movingWithPayload =
        IF kind = "byPayload" /\ agent.currentPayload # 0
          THEN @ + dt ELSE @]

\* Branch 1: the agent is CHARGING.
StepCharging_NeverFull(s, agent, m, dt) ==
  LET charger == ChargerAt(m, agent.floorId, agent.position)
      chargeRate == IF charger # Null /\ charger[1].chargeRate # 0
                      THEN charger[1].chargeRate ELSE DEFAULT_CHARGE_RATE
  IN [s EXCEPT
        !.metrics.idleChargingSeconds = @ + dt,
        !.agents = chargeBattery(s.agents, agent.id, chargeRate * dt)]

StepCharging(s, agent, m, dt) ==
  LET charger == ChargerAt(m, agent.floorId, agent.position)
      chargeRate == IF charger # Null /\ charger[1].chargeRate # 0
                      THEN charger[1].chargeRate ELSE DEFAULT_CHARGE_RATE
      charged == chargeBattery(s.agents, agent.id, chargeRate * dt)
      full == agent.battery >= Pct(CHARGED_BATTERY)
  IN [s EXCEPT
        !.metrics.idleChargingSeconds = @ + dt,
        !.agents = IF full THEN setAgentStatus(charged, agent.id, "IDLE")
                           ELSE charged,
        !.agentStates[agent.id].targetChargerPosition =
           IF full THEN Null ELSE @]

\* Branch 2: battery <= 5 and not CHARGING.
StepCritical(s, agent, m, now) ==
  LET charger == ChargerOnFloor(m, agent.floorId)
      holds == agent.currentJobId # NoId
  IN [s EXCEPT
        !.agents = IF holds THEN clearJob(@, agent.id) ELSE @,
        !.events = IF holds
                     THEN addEvent(@, "AGENT_LOW_BATTERY", now, agent.id, NoId)
                     ELSE @,
        !.agentStates[agent.id].targetChargerPosition =
           IF charger # Null THEN charger[1].position ELSE @,
        !.agentStates[agent.id].routeCompleted =
           IF charger # Null THEN TRUE ELSE @]

\* "if (path && path.length > 1) { move one cell }", else nothing.
MoveAlong(s, agent, path, dt, kind) ==
  IF path # Null /\ Len(path) > 1 THEN MoveOneCell(s, agent, path, dt, kind)
                                  ELSE s

\* Branch 3: a charger target is set.
StepToCharger(s, agent, st, m, dt) ==
  IF ~HasFloor(m, agent.floorId) THEN s
  ELSE IF agent.position = st.targetChargerPosition
    THEN [s EXCEPT !.agents = setAgentStatus(@, agent.id, "CHARGING")]
  ELSE MoveAlong(s, agent,
                 findPath(FindFloor(m, agent.floorId), agent.position,
                          st.targetChargerPosition, AsPathAgent(agent)),
                 dt, "without")

\* Branch 5: no route in the plan for this agent.
StepNoPlan(s, agent, m) ==
  LET charger == ChargerOnFloor(m, agent.floorId)
  IN IF agent.battery < Pct(LOW_BATTERY) /\ agent.currentJobId = NoId
          /\ charger # Null
       THEN [s EXCEPT !.agentStates[agent.id].targetChargerPosition =
                         charger[1].position]
       ELSE s

\* Branch 6, given the path to the first step: move, or start the route
\* when the path is the agent's own cell.
ApproachRouteStart(s, agent, path, dt) ==
  IF path # Null /\ Len(path) > 1
    THEN MoveOneCell(s, agent, path, dt, "byPayload")
  ELSE IF path # Null /\ Len(path) = 1
    THEN [s EXCEPT !.agentStates[agent.id].currentStepIndex = 0]
  ELSE s

\* Branch 6: the cursor is -1 and the agent is away from the first step.
StepToRouteStart(s, agent, agentPlan, m, dt) ==
  IF ~HasFloor(m, agent.floorId) THEN s
  ELSE ApproachRouteStart(
         s, agent,
         findPath(FindFloor(m, agent.floorId), agent.position,
                  agentPlan.route[1].position, AsPathAgent(agent)),
         dt)

\* Branch 7: the cursor is past the end of the route.
StepRouteOverrun(s, agent) ==
  [s EXCEPT
     !.agentStates[agent.id].currentStepIndex = -1,
     !.agentStates[agent.id].actionStarted = FALSE,
     !.agentStates[agent.id].routeCompleted = TRUE,
     !.agents = setAgentStatus(@, agent.id, "IDLE")]

\* "for (const jobId of agentPlan.jobIds) { if (test) { ...; break; } }":
\* the job id at the least of the indices that pass the test, if any.
FirstJobId(jobIds, hits) ==
  IF hits = {} THEN NoId
  ELSE jobIds[CHOOSE i \in hits : \A k \in hits : i <= k]

\* Mutation of CompletePickup: the first job of the route is taken whether
\* or not it was picked up before.  C6_DeliveredIsFinal fails under it.
CompletePickup_AnyJob(s, agent, agentPlan, sj, now) ==
  LET jobId == FirstJobId(agentPlan.jobIds,
                          {i \in 1..Len(agentPlan.jobIds) :
                             HasJob(sj, agentPlan.jobIds[i])})
  IN IF jobId = NoId THEN s
     ELSE [s EXCEPT
             !.jobs = setJobState(markPickedUp(@, jobId, now), jobId,
                                  "IN_PROGRESS"),
             !.agents = setPayload(@, agent.id,
                          agent.currentPayload + FindJob(sj, jobId).weight)]

\* Completing a PICKUP action.
CompletePickup(s, agent, agentPlan, sj, now) ==
  LET jobId == FirstJobId(agentPlan.jobIds,
                          {i \in 1..Len(agentPlan.jobIds) :
                             /\ HasJob(sj, agentPlan.jobIds[i])
                             /\ ~PickedUp(FindJob(sj, agentPlan.jobIds[i]))})
  IN IF jobId = NoId THEN s
     ELSE [s EXCEPT
             !.jobs = setJobState(markPickedUp(@, jobId, now), jobId,
                                  "IN_PROGRESS"),
             !.agents = setPayload(@, agent.id,
                          agent.currentPayload + FindJob(sj, jobId).weight)]

\* Mutation of PayloadAfterDropoff: a dropoff empties the cart.
\* C7_PayloadRoundTrip fails under it.
PayloadAfterDropoff_Empty(agent, job) == 0

\* Math.max(0, agent.currentPayload - job.item.weight)
PayloadAfterDropoff(agent, job) == Max(0, agent.currentPayload - job.weight)

\* Completing a DROPOFF action, up to and including the allDelivered test,
\* which reads the job records fetched at the start of the tick.
CompleteDropoff_Again(s, agent, agentPlan, sj, now) ==
  LET Carried(j) == PickedUp(j)
      jobId == FirstJobId(agentPlan.jobIds,
                          {i \in 1..Len(agentPlan.jobIds) :
                             /\ HasJob(sj, agentPlan.jobIds[i])
                             /\ Carried(FindJob(sj, agentPlan.jobIds[i]))})
      job == FindJob(sj, jobId)
      s1 == IF jobId = NoId THEN s
            ELSE [s EXCEPT
                    !.metrics.deliveredCount = @ + 1,
                    !.metrics.onTimeCount =
                       IF now <= job.deadline THEN @ + 1 ELSE @,
                    !.jobs = markDelivered(@, jobId, now),
                    !.events = addEvent(@, "JOB_COMPLETED", now, agent.id,
                                        jobId),
                    !.agents = setPayload(@, agent.id,
                                 PayloadAfterDropoff(agent, job))]
      allDelivered == \A i \in 1..Len(agentPlan.jobIds) :
                         /\ HasJob(sj, agentPlan.jobIds[i])
                         /\ HasDelivered(FindJob(sj, agentPlan.jobIds[i]))
  IN IF allDelivered
       THEN [s1 EXCEPT !.agents = setPayload(clearJob(@, agent.id),
                                             agent.id, 0)]
       ELSE s1

CompleteDropoff(s, agent, agentPlan, sj, now) ==
  LET Carried(j) == PickedUp(j) /\ ~HasDelivered(j)
      jobId == FirstJobId(agentPlan.jobIds,
                          {i \in 1..Len(agentPlan.jobIds) :
                             /\ HasJob(sj, agentPlan.jobIds[i])
                             /\ Carried(FindJob(sj, agentPlan.jobIds[i]))})
      job == FindJob(sj, jobId)
      s1 == IF jobId = NoId THEN s
            ELSE [s EXCEPT
                    !.metrics.deliveredCount = @ + 1,
                    !.metrics.onTimeCount =
                       IF now <= job.deadline THEN @ + 1 ELSE @,
                    !.jobs = markDelivered(@, jobId, now),
                    !.events = addEvent(@, "JOB_COMPLETED", now, agent.id,
                                        jobId),
                    !.agents = setPayload(@, agent.id,
                                 PayloadAfterDropoff(agent, job))]
      allDelivered == \A i \in 1..Len(agentPlan.jobIds) :
                         /\ HasJob(sj, agentPlan.jobIds[i])
                         /\ HasDelivered(FindJob(sj, agentPlan.jobIds[i]))
  IN IF allDelivered
       THEN [s1 EXCEPT !.agents = setPayload(clearJob(@, agent.id),
                                             agent.id, 0)]
       ELSE s1

\* Branch 8, "Start action if not started".
StartAction(s, agent, st, currentStep, now) ==
  IF st.actionStarted THEN s
  ELSE [s EXCEPT
          !.agentStates[agent.id].actionStarted = TRUE,
          !.agentStates[agent.id].actionStartTime = now,
          !.agents =
             IF currentStep.action = "PICKUP"
               THEN setAgentStatus(@, agent.id, "PICKING_UP")
             ELSE IF currentStep.action = "DROPOFF"
               THEN setAgentStatus(@, agent.id, "DROPPING_OFF")
             ELSE @]

FinishAction_NoWait(sStart, agent, st, agentPlan, sj, now) ==
  LET idx == st.currentStepIndex
      currentStep == agentPlan.route[idx + 1]
      hasNext == idx + 2 <= Len(agentPlan.route)
      sDone ==
        IF currentStep.action = "PICKUP"
          THEN CompletePickup(sStart, agent, agentPlan, sj, now)
        ELSE IF currentStep.action = "DROPOFF"
          THEN CompleteDropoff(sStart, agent, agentPlan, sj, now)
        ELSE sStart
  IN [sDone EXCEPT
        !.agentStates[agent.id].actionStarted = FALSE,
        !.agentStates[agent.id].currentStepIndex =
           IF hasNext THEN idx + 1 ELSE -1,
        !.agentStates[agent.id].routeCompleted =
           IF hasNext THEN @ ELSE TRUE,
        !.agents = IF hasNext THEN @
                   ELSE setAgentStatus(@, agent.id, "IDLE")]

\* Branch 8, "Check if action duration elapsed": sStart is the state with
\* the action started.
FinishAction(sStart, agent, st, agentPlan, sj, now) ==
  LET idx == st.currentStepIndex
      currentStep == agentPlan.route[idx + 1]
      hasNext == idx + 2 <= Len(agentPlan.route)
      actionDuration == IF currentStep.duration # 0
                          THEN currentStep.duration
                          ELSE Secs(DEFAULT_ACTION_DURATION)
      startTime == IF st.actionStarted THEN st.actionStartTime ELSE now
      sDone ==
        IF currentStep.action = "PICKUP"
          THEN CompletePickup(sStart, agent, agentPlan, sj, now)
        ELSE IF currentStep.action = "DROPOFF"
          THEN CompleteDropoff(sStart, agent, agentPlan, sj, now)
        ELSE sStart
  IN IF now - startTime >= actionDuration
       THEN [sDone EXCEPT
               !.agentStates[agent.id].actionStarted = FALSE,
               !.agentStates[agent.id].currentStepIndex =
                  IF hasNext THEN idx + 1 ELSE -1,
               !.agentStates[agent.id].routeCompleted =
                  IF hasNext THEN @ ELSE TRUE,
               !.agents = IF hasNext THEN @
                          ELSE setAgentStatus(@, agent.id, "IDLE")]
       ELSE sStart

\* Branch 8: the current step carries an action.
StepAction(s, agent, st, agentPlan, sj, m, now, dt) ==
  IF agent.position # agentPlan.route[st.currentStepIndex + 1].position
    THEN IF ~HasFloor(m, agent.floorId) THEN s
         ELSE MoveAlong(s, agent,
                        findPath(FindFloor(m, agent.floorId), agent.position,
                                 agentPlan.route[st.currentStepIndex + 1]
                                   .position,
                                 AsPathAgent(agent)),
                        dt, "none")
    ELSE FinishAction(
           StartAction(s, agent, st,
                       agentPlan.route[st.currentStepIndex + 1], now),
           agent, st, agentPlan, sj, now)

\* Branch 9 away from the step's cell, given the path to it: move, stay, or
\* report the agent blocked when there is no path.
MoveOrDelay(s, agent, path, now, dt) ==
  IF path # Null /\ Len(path) > 1
    THEN MoveOneCell(s, agent, path, dt, "byPayload")
  ELSE IF path # Null THEN s
  ELSE [s EXCEPT !.events = addEvent(@, "AGENT_DELAYED", now, agent.id, NoId)]

\* Branch 9: the current step is a plain position.
StepMovement(s, agent, st, agentPlan, m, now, dt) ==
  LET idx == st.currentStepIndex
      currentStep == agentPlan.route[idx + 1]
      hasNext == idx + 2 <= Len(agentPlan.route)
  IN IF agent.position = currentStep.position
       THEN IF hasNext
              THEN [s EXCEPT !.agentStates[agent.id].currentStepIndex = idx + 1]
              ELSE [s EXCEPT
                      !.agents = setAgentStatus(@, agent.id, "IDLE"),
                      !.agentStates[agent.id].currentStepIndex = -1,
                      !.agentStates[agent.id].routeCompleted = TRUE]
       ELSE IF ~HasFloor(m, agent.floorId) THEN s
       ELSE MoveOrDelay(s, agent,
                        findPath(FindFloor(m, agent.floorId), agent.position,
                                 currentStep.position, AsPathAgent(agent)),
                        now, dt)

\* The agent loop's body from "Reset step index" on: s holds the cursor as
\* reset, agentPlan is the agent's route in the plan.
FollowRoute(s, agent, agentPlan, sj, m, now, dt) ==
  IF s.agentStates[agent.id].currentStepIndex = -1
    THEN StepToRouteStart(s, agent, agentPlan, m, dt)
  ELSE IF s.agentStates[agent.id].currentStepIndex >= Len(agentPlan.route)
    THEN StepRouteOverrun(s, agent)
  ELSE IF agentPlan.route[s.agentStates[agent.id].currentStepIndex + 1].action
            # "NONE"
    THEN StepAction(s, agent, s.agentStates[agent.id], agentPlan, sj, m,
                    now, dt)
  ELSE StepMovement(s, agent, s.agentStates[agent.id], agentPlan, m, now, dt)

\* "Reset step index if we have a new plan and agent is at start"
ResetCursor(s, agent, agentPlan) ==
  IF s.agentStates[agent.id].currentStepIndex = -1
       /\ agent.position = agentPlan.route[1].position
    THEN [s EXCEPT !.agentStates[agent.id].currentStepIndex = 0]
    ELSE s

\* The agent loop's body from "Track idle/waiting time" on.
IdleOrRouted(s, agent, sj, plan, m, now, dt) ==
  IF ~HasAgentPlan(plan, agent.id)
       \/ Len(FindAgentPlan(plan, agent.id).route) = 0
    THEN StepNoPlan(s, agent, m)
    ELSE FollowRoute(ResetCursor(s, agent, FindAgentPlan(plan, agent.id)),
                     agent, FindAgentPlan(plan, agent.id), sj, m, now, dt)

\* "Track idle/waiting time"
CountIdle(s, agent, dt) ==
  IF agent.status = "WAITING"
       \/ (agent.status = "IDLE" /\ agent.currentJobId = NoId)
    THEN [s EXCEPT !.metrics.idleWaitingSeconds = @ + dt]
    ELSE s

\* The agent loop's body after getAgentState: s holds the agent's entry.
AgentBranch(s, agent, sj, plan, m, now, dt) ==
  IF agent.status = "CHARGING" THEN StepCharging(s, agent, m, dt)
  ELSE IF agent.battery <= Pct(CRITICAL_BATTERY)
    THEN StepCritical(s, agent, m, now)
  ELSE IF s.agentStates[agent.id].targetChargerPosition # Null
    THEN StepToCharger(s, agent, s.agentStates[agent.id], m, dt)
  ELSE IdleOrRouted(CountIdle(s, agent, dt), agent, sj, plan, m, now, dt)

\* The body of "for (const agent of currentAgents)" for one agent.  agent
\* and sj are the records fetched at the start of the tick; s holds the
\* stores and refs as written so far.
ProcessAgent(s, agent, sj, plan, m, now, dt) ==
  AgentBranch([s EXCEPT !.agentStates = getAgentState(@, agent.id)],
              agent, sj, plan, m, now, dt)

RECURSIVE ProcessAgents(_, _, _, _, _, _, _, _)
ProcessAgents(s, k, snapAgents, sj, plan, m, now, dt) ==
  IF k > Len(snapAgents) THEN s
  ELSE ProcessAgents(ProcessAgent(s, snapAgents[k], sj, plan, m, now, dt),
                     k + 1, snapAgents, sj, plan, m, now, dt)

\* The plan has a route that is still active (lines 490-496); states is
\* agentStatesRef.current after the agent loop.
HasActiveRoutes(plan, states) ==
  /\ plan.present
  /\ \E i \in 1..Len(plan.agentPlans) :
       LET ap == plan.agentPlans[i]
       IN /\ Len(ap.route) # 0
          /\ \/ ap.agentId \notin DOMAIN states
             \/ ~states[ap.agentId].routeCompleted

\* queuedJobs.map(j => j.id).sort().join(','): ids are unique and hold no
\* comma, so two such strings are equal exactly when the id sets are.
QueuedJobIds(js) == {js[i].id : i \in {k \in DOMAIN js : js[k].state = "QUEUED"}}

IdleAgentIds(ags) ==
  {ags[i].id : i \in {k \in DOMAIN ags :
                        ags[k].status = "IDLE" /\ ags[k].currentJobId = NoId}}

\* The throttled updateMetrics call: it writes into the stored plan, if any.
\* The two percentages it also copies are quotients of the counters and are
\* left out.
updateMetrics(plan, mt) ==
  IF plan.present
    THEN [plan EXCEPT !.metrics =
            [totalEnergyWh |-> mt.totalEnergyWh,
             idleWaitingSeconds |-> mt.idleWaitingSeconds,
             idleChargingSeconds |-> mt.idleChargingSeconds]]
    ELSE plan

\* runReplan, lines 117-129: write the plan's assignments to the stores.
\* fj and fa are the job and agent lists read at the start of runReplan.
RECURSIVE ApplyAssignments(_, _, _, _, _)
ApplyAssignments(st, agentPlans, k, fj, fa) ==
  IF k > Len(agentPlans) THEN st
  ELSE
    LET ap == agentPlans[k]
        jobId == ap.jobIds[1]      \* createAgentPlan lists exactly one job
        known == \E i \in DOMAIN fa : fa[i].id = ap.agentId
        queued == HasJob(fj, jobId) /\ FindJob(fj, jobId).state = "QUEUED"
    IN ApplyAssignments(
         IF known /\ queued
           THEN [st EXCEPT !.jobs = assignAgent(@, jobId, ap.agentId),
                           !.agents = assignJob(@, ap.agentId, jobId)]
           ELSE st,
         agentPlans, k + 1, fj, fa)

\* runReplan, lines 131-139: ETA marks of the unassigned jobs.
RECURSIVE MarkUnassigned(_, _, _, _, _)
MarkUnassigned(js, ids, k, fj, t) ==
  IF k > Len(ids) THEN js
  ELSE MarkUnassigned(
         IF HasJob(fj, ids[k])
           THEN updateETAs(js, ids[k], t + Secs(ETA_START),
                           t + Secs(ETA_DELIVERY),
                           FindJob(fj, ids[k]).deadline < t + Secs(LATE_BUFFER))
           ELSE js,
         ids, k + 1, fj, t)

\* runReplan from the new plan on: agent states, assignments, ETA marks,
\* finishReplan and the event.  The lateJobs list of the event is left out.
ApplyPlan(s, newPlan, t) ==
  [agents |-> ApplyAssignments(s, newPlan.agentPlans, 1, s.jobs,
                               s.agents).agents,
   jobs |-> MarkUnassigned(ApplyAssignments(s, newPlan.agentPlans, 1, s.jobs,
                                            s.agents).jobs,
                           newPlan.unassignedJobIds, 1, s.jobs, t),
   agentStates |-> [id \in {newPlan.agentPlans[i].agentId :
                              i \in 1..Len(newPlan.agentPlans)}
                      |-> DefaultAgentState],
   metrics |-> s.metrics,
   events |-> addEvent(s.events, "REPLAN_COMPLETED", t, NoId, NoId),
   plan |-> newPlan]

\* runReplan.  s holds the stores after the agent loop; t is the
\* currentTime captured by the hook's closure, i.e. the clock as of the
\* last render, which is the clock before this tick.  The result carries
\* the new plan as well.
runReplan(s, m, t) == ApplyPlan(s, createPlan(s.jobs, s.agents, m, t), t)

----------------------------------------------------------------------------
(* Bounds *)

MaxTime == 120        \* clock horizon, in tenths of a second
DeliveryBudget == 100 \* time allowed from plan to delivery, in tenths of a second

----------------------------------------------------------------------------
(* simulateTick: one firing of the interval callback while RUNNING *)

\* The replan trigger (lines 483-521), evaluated on the agents, jobs and
\* plan fetched at the start of the tick and on the agent states as the
\* agent loop left them.
ReplanDue_IgnoringRoutes(s, now) ==
  /\ QueuedJobIds(jobs) # {}
  /\ IdleAgentIds(agents) # {}
  /\ \/ QueuedJobIds(jobs) # lastQueuedJobIds
     \/ currentPlan.present
     \/ ~lastReplanTime.valid
     \/ now - lastReplanTime.time >= Secs(REPLAN_COOLDOWN)

ReplanDue(s, now) ==
  /\ QueuedJobIds(jobs) # {}
  /\ IdleAgentIds(agents) # {}
  /\ ~HasActiveRoutes(currentPlan, s.agentStates)
  /\ \/ QueuedJobIds(jobs) # lastQueuedJobIds
     \/ currentPlan.present      \* planJustCleared
     \/ ~lastReplanTime.valid
     \/ now - lastReplanTime.time >= Secs(REPLAN_COOLDOWN)

\* The tick with a replan: r is runReplan's outcome.
TickWithReplan(r, now) ==
  /\ agents' = r.agents
  /\ jobs' = r.jobs
  /\ agentStates' = r.agentStates
  /\ events' = r.events
  /\ currentPlan' = r.plan
  /\ replanCount' = replanCount + 1
  /\ lastReplanTime' = [valid |-> TRUE, time |-> now]
  /\ lastQueuedJobIds' = QueuedJobIds(jobs)

\* The tick without a replan: the throttled metrics flush and clearPlan.
TickWithoutReplan(s, flush) ==
  /\ agents' = s.agents
  /\ jobs' = s.jobs
  /\ agentStates' = s.agentStates
  /\ events' = s.events
  /\ currentPlan' =
       IF currentPlan.present /\ ~HasActiveRoutes(currentPlan, s.agentStates)
         THEN NoPlan
       ELSE IF flush THEN updateMetrics(currentPlan, s.metrics)
       ELSE currentPlan
  /\ UNCHANGED <<replanCount, lastReplanTime, lastQueuedJobIds>>

\* simulateTick after the agent loop: s is what the loop left.
AfterAgentLoop(s, now) ==
  /\ tickCount' = IF tickCount + 1 >= 10 THEN 0 ELSE tickCount + 1
  /\ IF ReplanDue(s, now)
       THEN TickWithReplan(runReplan(s, map, currentTime), now)
       ELSE TickWithoutReplan(s, tickCount + 1 >= 10)
  /\ metrics' = s.metrics

simulateTick ==
  /\ currentTime + config.speedMultiplier <= MaxTime
  /\ currentTime' = currentTime + config.speedMultiplier
  /\ AfterAgentLoop(
       ProcessAgents([agents |-> agents, jobs |-> jobs,
                      agentStates |-> agentStates, metrics |-> metrics,
                      events |-> events],
                     1, agents, jobs, currentPlan, map,
                     currentTime + config.speedMultiplier,
                     config.speedMultiplier),
       currentTime + config.speedMultiplier)
  /\ UNCHANGED <<map, config, call>>

----------------------------------------------------------------------------
(* Scenarios: the stores as loaded by a scenario import (handleImport),   *)
(* which also resets the clock and the plan; the refs are as constructed. *)

OpenCell ==
  [walkable |-> TRUE, isObstacle |-> FALSE, isQuarantine |-> FALSE,
   isRestricted |-> FALSE, restrictedAccessProfiles |-> {}]

ObstacleCell == [OpenCell EXCEPT !.walkable = FALSE, !.isObstacle = TRUE]

QuarantineCell == [OpenCell EXCEPT !.isQuarantine = TRUE]

RestrictedCell(profiles) ==
  [OpenCell EXCEPT !.isRestricted = TRUE, !.restrictedAccessProfiles = profiles]

CellOfKind(kind) ==
  CASE kind = "open" -> OpenCell
    [] kind = "obstacle" -> ObstacleCell
    [] kind = "restricted" -> RestrictedCell({"ICU"})
    [] kind = "quarantine" -> QuarantineCell

\* A floor of w x h open cells, except that cell `at` has the given kind.
MakeFloor(id, w, h, at, kind) ==
  [id |-> id, width |-> w, height |-> h,
   grid |-> [p \in (0..(w - 1)) \X (0..(h - 1)) |->
               IF p = at THEN CellOfKind(kind) ELSE OpenCell]]

MakeAgent(id, pos, battery, drainRate, payload, limit, access, pool) ==
  [id |-> id, position |-> pos, floorId |-> "F1", speed |-> 1,
   battery |-> battery, maxBattery |-> Pct(100),
   batteryDrainRate |-> drainRate, payloadLimit |-> limit,
   currentPayload |-> payload, accessProfiles |-> access,
   status |-> "IDLE", currentJobId |-> NoId, pool |-> pool]

MakeJob(id, hasPickup, pickupPos, dropoffPos, weight, priority, service) ==
  [id |-> id, hasPickup |-> hasPickup,
   pickup |-> [position |-> pickupPos, floorId |-> "F1"],
   dropoff |-> [position |-> dropoffPos, floorId |-> "F1"],
   weight |-> weight, priority |-> priority, deadline |-> Secs(60),
   createdAt |-> 0, state |-> "QUEUED", assignedAgentId |-> NoId,
   pickupServiceTime |-> service, dropoffServiceTime |-> service,
   hasEta |-> FALSE, estimatedStartTime |-> 0, estimatedDeliveryTime |-> 0,
   isLikelyLate |-> FALSE, progress |-> NoProgress]

CorridorLen == 10     \* cells of the end-to-end corridor
WardWidth == 3        \* the ward floor is WardWidth x WardHeight cells
WardHeight == 2

CONFIG_STARVATION == 300        \* seconds

defaultConfig ==
  [speedMultiplier |-> 1,
   starvationThresholdSeconds |-> Secs(CONFIG_STARVATION)]

Scenario(m, ags, js, cfg) == [map |-> m, agents |-> ags, jobs |-> js, config |-> cfg]

\* The end-to-end scenario: a corridor, one cart on the pickup cell, one
\* IMMEDIATE job to the far end with 2 s service times.
EndToEnd ==
  {Scenario([floors |-> <<MakeFloor("F1", CorridorLen, 1, <<0, 0>>, "open")>>,
             chargers |-> << >>],
            <<[MakeAgent("a1", <<0, 0>>, Pct(100), 2, 0, 50, {"GENERAL"},
                         "NON_URGENT") EXCEPT !.speed = speed]>>,
            <<MakeJob("j1", TRUE, <<0, 0>>, <<CorridorLen - 1, 0>>, 5,
                      "IMMEDIATE", Secs(2))>>,
            [speedMultiplier |-> mult]) :
     speed \in {1, 2}, mult \in {1, 2}}

WardMap(kind, chargers) ==
  [floors |-> <<MakeFloor("F1", WardWidth, WardHeight, <<1, 0>>, kind)>>,
   chargers |-> chargers]

FarCorner == <<WardWidth - 1, WardHeight - 1>>

WardCharger(rate) ==
  [position |-> FarCorner, floorId |-> "F1", chargeRate |-> rate]

\* Job lists of the ward scenarios: weight 9 is more than any cart carries.
WardJobs ==
  { <<MakeJob("j1", TRUE, <<0, 1>>, <<WardWidth - 1, 0>>, 5, "URGENT", 3)>>,
    <<MakeJob("j1", FALSE, Null, <<WardWidth - 1, 0>>, 5, "URGENT", 3)>>,
    <<MakeJob("j1", TRUE, <<0, 1>>, <<WardWidth - 1, 0>>, 5, "URGENT", 3),
      MakeJob("j2", TRUE, FarCorner, <<0, 0>>, 5, "EMERGENCY", 0)>>,
    <<MakeJob("j1", TRUE, <<0, 1>>, <<WardWidth - 1, 0>>, 9, "URGENT", 3)>>,
    <<MakeJob("j1", TRUE, <<0, 1>>, <<WardWidth - 1, 0>>, 5, "URGENT", 3),
      MakeJob("j2", TRUE, FarCorner, <<0, 0>>, 9, "SEMI_URGENT", 3)>> }

\* Deliveries on the ward floor: one or two carts, one or two jobs.
Deliveries ==
  {Scenario(WardMap(kind, << >>),
            <<MakeAgent("a1", <<0, 0>>, battery, 2, load[1], load[2], access,
                        "NON_URGENT")>> \o second,
            js, defaultConfig) :
     kind \in {"open", "obstacle", "restricted"},
     battery \in {Pct(22), Pct(100)},
     load \in {<<0, 8>>, <<3, 5>>},
     access \in {{"GENERAL"}, {"GENERAL", "ICU"}},
     second \in {<< >>,
                 <<MakeAgent("a2", FarCorner, Pct(100), 2, 0, 8,
                             {"GENERAL", "ICU"}, "URGENT")>>},
     js \in WardJobs}

\* Battery handling on the ward floor: a cart that is low, critical or
\* docked, with or without a job it held when the scenario was exported.
BatteryCases ==
  {Scenario(WardMap("open", chargers),
            <<[MakeAgent("a1", pos, battery, drainRate, 0, 8, {"GENERAL"},
                         "NON_URGENT")
                 EXCEPT !.status = status,
                        !.currentJobId = IF held THEN "j1" ELSE NoId]>>,
            <<[MakeJob("j1", TRUE, <<0, 1>>, <<WardWidth - 1, 0>>, 5,
                       "URGENT", 3)
                 EXCEPT !.state = IF held THEN "ASSIGNED" ELSE "QUEUED",
                        !.assignedAgentId = IF held THEN "a1" ELSE NoId]>>,
            defaultConfig) :
     chargers \in {<< >>, <<WardCharger(5)>>, <<WardCharger(60)>>},
     pos \in {<<0, 0>>, FarCorner},
     battery \in {Pct(4), Pct(6), Pct(19), Pct(20), Pct(94), Pct(100)},
     drainRate \in {2, 70},
     status \in {"IDLE", "MOVING", "CHARGING"},
     held \in BOOLEAN}

\* A cart whose battery runs down on its route: a1 drains 12 % per cell
\* while a2 dwells at its pickup and so keeps the plan stored.  With 40 %
\* of battery a1 cannot afford the four cells of its job, and with 58 % it
\* ends them on the reserve exactly.  j2 is due after 6 s and is delivered
\* later than that.
DrainCases ==
  {Scenario(WardMap("open", chargers),
            <<MakeAgent("a1", <<0, 0>>, battery, 120, 0, 8, {"GENERAL"},
                        "NON_URGENT"),
              MakeAgent("a2", FarCorner, Pct(100), 2, 0, 8, {"GENERAL"},
                        "URGENT")>>,
            <<MakeJob("j1", TRUE, <<0, 1>>, <<WardWidth - 1, 0>>, 5,
                      "URGENT", 3),
              [MakeJob("j2", TRUE, FarCorner, <<0, 0>>, 5, "EMERGENCY",
                       Secs(4))
                 EXCEPT !.deadline = Secs(6)]>>,
            defaultConfig) :
     chargers \in {<< >>, <<WardCharger(5)>>},
     battery \in {Pct(40), Pct(58), Pct(100)}}

Scenarios == EndToEnd \cup Deliveries \cup BatteryCases \cup DrainCases

Init ==
  /\ \E sc \in Scenarios :
       /\ map = sc.map
       /\ agents = sc.agents
       /\ jobs = sc.jobs
       /\ config = sc.config
  /\ currentTime = 0
  /\ currentPlan = NoPlan
  /\ replanCount = 0
  /\ agentStates = << >>
  /\ metrics = [totalEnergyWh |-> 0, idleWaitingSeconds |-> 0,
                idleChargingSeconds |-> 0, movingWithPayload |-> 0,
                movingWithoutPayload |-> 0, deliveredCount |-> 0,
                onTimeCount |-> 0]
  /\ tickCount = 0
  /\ events = << >>
  /\ lastReplanTime = [valid |-> FALSE, time |-> 0]
  /\ lastQueuedJobIds = {}
  /\ call = NoCall

Next == simulateTick

Spec == Init /\ [][Next]_vars

FairSpec == Spec /\ WF_vars(simulateTick)

----------------------------------------------------------------------------
(* The map editor while the simulation runs: the OBSTACLE tool applied to  *)
(* a cell of the floor.  The editor does not look at the simulation state. *)

MaxObstacles == 1     \* obstacle cells a floor may hold before a paint

\* mapStore.setCellType: Object.assign(floor.grid[y][x], updates) on the
\* floor with the id, when the floor and the cell exist.
setCellType(m, floorId, pos, updates) ==
  [m EXCEPT
     !.floors = [f \in DOMAIN m.floors |->
                   IF /\ m.floors[f].id = floorId
                      /\ \A k \in 1..(f - 1) : m.floors[k].id # floorId
                      /\ pos \in DOMAIN m.floors[f].grid
                     THEN [m.floors[f] EXCEPT
                             !.grid[pos] =
                                [fld \in DOMAIN @ |->
                                   IF fld \in DOMAIN updates
                                     THEN updates[fld] ELSE @[fld]]]
                     ELSE m.floors[f]]]

\* paintAtPosition with the OBSTACLE tool selected, on the first floor.
paintAtPosition(pos) ==
  /\ Len(map.floors) > 0
  /\ Cardinality({q \in DOMAIN map.floors[1].grid :
                    map.floors[1].grid[q].isObstacle}) < MaxObstacles
  /\ map' = setCellType(map, map.floors[1].id, pos,
                        [isObstacle |-> TRUE, walkable |-> FALSE])
  /\ UNCHANGED <<agents, jobs, config, currentTime, currentPlan,
                 replanCount, agentStates, metrics, tickCount, events,
                 lastReplanTime, lastQueuedJobIds, call>>

\* Open-ward deliveries by one or two carts.
EditScenarios ==
  {Scenario(WardMap("open", << >>),
            <<MakeAgent("a1", <<0, 0>>, Pct(100), 2, 0, 8, {"GENERAL"},
                        "NON_URGENT")>> \o second,
            js, defaultConfig) :
     second \in {<< >>,
                 <<MakeAgent("a2", FarCorner, Pct(100), 2, 0, 8,
                             {"GENERAL", "ICU"}, "URGENT")>>},
     js \in WardJobs}

EditInit ==
  /\ \E sc \in EditScenarios :
       /\ map = sc.map
       /\ agents = sc.agents
       /\ jobs = sc.jobs
       /\ config = sc.config
  /\ currentTime = 0
  /\ currentPlan = NoPlan
  /\ replanCount = 0
  /\ agentStates = << >>
  /\ metrics = [totalEnergyWh |-> 0, idleWaitingSeconds |-> 0,
                idleChargingSeconds |-> 0, movingWithPayload |-> 0,
                movingWithoutPayload |-> 0, deliveredCount |-> 0,
                onTimeCount |-> 0]
  /\ tickCount = 0
  /\ events = << >>
  /\ lastReplanTime = [valid |-> FALSE, time |-> 0]
  /\ lastQueuedJobIds = {}
  /\ call = NoCall

EditNext ==
  \/ simulateTick
  \/ \E pos \in (0..(WardWidth - 1)) \X (0..(WardHeight - 1)) :
       paintAtPosition(pos)

EditSpec == EditInit /\ [][EditNext]_vars

----------------------------------------------------------------------------
(* Direct calls of findPath: one call per behaviour, on a floor with a     *)
(* wall column whose cells are open, obstacle, quarantine or ICU-only.     *)

GridWidth == 3        \* the path floors are GridWidth x GridHeight cells
GridHeight == 3

GridCells == (0..(GridWidth - 1)) \X (0..(GridHeight - 1))

PathFloor(wall) ==
  [id |-> "F1", width |-> GridWidth, height |-> GridHeight,
   grid |-> [p \in GridCells |->
               IF p[1] = 1 THEN CellOfKind(wall[p[2] + 1])
               ELSE OpenCell]]

PathFloors ==
  {PathFloor(wall) :
     wall \in [1..GridHeight ->
                {"open", "obstacle", "quarantine", "restricted"}]}

\* One position off each side of the grid.
OffGrid == {<<-1, 0>>, <<GridWidth, 0>>, <<0, -1>>, <<0, GridHeight>>}

\* <<start, end>> of the calls: every pair of cells, and each position off
\* the grid as start and as end.
PathQueries ==
  (GridCells \X GridCells) \cup (OffGrid \X {<<0, 0>>})
    \cup ({<<0, 0>>} \X OffGrid)

PathAgents ==
  {NoAgent,
   [present |-> TRUE, accessProfiles |-> {"GENERAL"}],
   [present |-> TRUE, accessProfiles |-> {"GENERAL", "ICU"}]}

\* The refs and the simulation store as constructed, with empty rosters.
Constructed ==
  /\ config = defaultConfig
  /\ currentTime = 0
  /\ currentPlan = NoPlan
  /\ replanCount = 0
  /\ agentStates = << >>
  /\ metrics = [totalEnergyWh |-> 0, idleWaitingSeconds |-> 0,
                idleChargingSeconds |-> 0, movingWithPayload |-> 0,
                movingWithoutPayload |-> 0, deliveredCount |-> 0,
                onTimeCount |-> 0]
  /\ tickCount = 0
  /\ events = << >>
  /\ lastReplanTime = [valid |-> FALSE, time |-> 0]
  /\ lastQueuedJobIds = {}
  /\ call = NoCall

PathInit ==
  /\ \E floor \in PathFloors : map = [floors |-> <<floor>>, chargers |-> << >>]
  /\ agents = << >>
  /\ jobs = << >>
  /\ Constructed

CallFindPath ==
  /\ call = NoCall
  /\ \E q \in PathQueries, agent \in PathAgents :
       call' = [fn |-> "findPath", floor |-> map.floors[1], start |-> q[1],
                end |-> q[2], agent |-> agent,
                result |-> findPath(map.floors[1], q[1], q[2], agent)]
  /\ UNCHANGED <<map, agents, jobs, currentTime, config, currentPlan,
                 replanCount, agentStates, metrics, tickCount, events,
                 lastReplanTime, lastQueuedJobIds>>

PathNext == CallFindPath

PathSpec == PathInit /\ [][PathNext]_vars

----------------------------------------------------------------------------
(* Direct calls of calculateEffectivePriority and sortJobsByPriority on    *)
(* two jobs, one call per behaviour.                                       *)

\* The time of the calls, late enough for every wait below.
ScoringTime == Secs(1000)

\* deadline - now of the jobs scored: past, due, and either side of 500 s.
DeadlineOffsets ==
  {-Secs(50), 0, Secs(250), Secs(500) - 1, Secs(500), Secs(1600)}

\* now - createdAt of the jobs scored.
WaitTimes ==
  {0, Secs(120), Secs(300), Secs(300) + 1, Secs(500), Secs(620),
   Secs(800), Secs(900)}

\* The jobs scored: every tier, deadline offset and wait.
ScoredJobs(id) ==
  {[MakeJob(id, FALSE, Null, <<0, 0>>, 1, tier, 0)
      EXCEPT !.deadline = ScoringTime + offset,
             !.createdAt = ScoringTime - wait] :
     tier \in {"IMMEDIATE", "EMERGENCY", "URGENT", "SEMI_URGENT",
               "NON_URGENT"},
     offset \in DeadlineOffsets, wait \in WaitTimes}

PriorityInit ==
  /\ map = [floors |-> << >>, chargers |-> << >>]
  /\ agents = << >>
  /\ jobs = << >>
  /\ Constructed

\* Two jobs scored at the same time with the same threshold.
CallEffectivePriority ==
  /\ call = NoCall
  /\ \E a \in ScoredJobs("j1"), b \in ScoredJobs("j2"),
        threshold \in {Secs(DEFAULT_STARVATION), Secs(120)} :
       call' = [fn |-> "calculateEffectivePriority", a |-> a, b |-> b,
                now |-> ScoringTime, threshold |-> threshold,
                scoreA |-> calculateEffectivePriority(a, ScoringTime,
                                                      threshold),
                scoreB |-> calculateEffectivePriority(b, ScoringTime,
                                                      threshold)]
  /\ UNCHANGED <<map, agents, jobs, currentTime, config, currentPlan,
                 replanCount, agentStates, metrics, tickCount, events,
                 lastReplanTime, lastQueuedJobIds>>

\* The list <<b, a>> sorted; the threshold is the default one.
CallSortJobs ==
  /\ call = NoCall
  /\ \E a \in ScoredJobs("j1"), b \in ScoredJobs("j2") :
       call' = [fn |-> "sortJobsByPriority", a |-> a, b |-> b,
                now |-> ScoringTime,
                threshold |-> Secs(DEFAULT_STARVATION),
                result |-> sortJobsByPriority(<<b, a>>, ScoringTime)]
  /\ UNCHANGED <<map, agents, jobs, currentTime, config, currentPlan,
                 replanCount, agentStates, metrics, tickCount, events,
                 lastReplanTime, lastQueuedJobIds>>

PriorityNext == CallEffectivePriority \/ CallSortJobs

PrioritySpec == PriorityInit /\ [][PriorityNext]_vars

----------------------------------------------------------------------------
(* Direct calls of the dispatcher on the stores of a scenario:            *)
(* checkJobFeasibility on every job, and createPlan up to twice.          *)

\* Job lists with an endpoint on the ward's special cell <<1, 0>>.
EndpointJobs ==
  { <<MakeJob("j1", TRUE, <<0, 1>>, <<1, 0>>, 5, "URGENT", 3)>>,
    <<MakeJob("j1", TRUE, <<1, 0>>, FarCorner, 5, "URGENT", 3)>>,
    <<MakeJob("j1", TRUE, <<0, 1>>, <<WardWidth, 0>>, 5, "URGENT", 3)>>,
    <<MakeJob("j1", TRUE, <<0, 1>>, <<WardWidth - 1, 0>>, 5, "NON_URGENT", 3),
      MakeJob("j2", FALSE, Null, <<1, 0>>, 5, "EMERGENCY", 3)>> }

EndpointCases ==
  {Scenario(WardMap(kind, << >>),
            <<MakeAgent("a1", <<0, 0>>, Pct(100), 2, 0, 8, access,
                        "NON_URGENT"),
              MakeAgent("a2", FarCorner, Pct(100), 2, 0, 8,
                        {"GENERAL", "ICU"}, "URGENT")>>,
            js, defaultConfig) :
     kind \in {"open", "obstacle", "restricted", "quarantine"},
     access \in {{"GENERAL"}, {"GENERAL", "ICU"}},
     js \in EndpointJobs}

\* Rosters of two carts that compete for the jobs: the origin cell of the
\* floor is open or blocked, the carts stand away from it, in one pool or
\* in two, and the first cart's battery covers few cells or many.
RosterJobs ==
  { <<MakeJob("j1", FALSE, Null, <<WardWidth - 1, 0>>, 5, "URGENT", 3)>>,
    <<MakeJob("j1", TRUE, <<0, 1>>, <<WardWidth - 1, 0>>, 5, "EMERGENCY", 3)>>,
    <<MakeJob("j1", TRUE, <<0, 1>>, <<WardWidth - 1, 0>>, 5, "URGENT", 3),
      MakeJob("j2", TRUE, FarCorner, <<1, 0>>, 5, "SEMI_URGENT", 3)>>,
    <<MakeJob("j1", TRUE, <<0, 1>>, <<WardWidth - 1, 0>>, 5, "URGENT", 3),
      MakeJob("j2", TRUE, FarCorner, <<1, 0>>, 5, "EMERGENCY", 3)>> }

RosterCases ==
  {Scenario([floors |-> <<MakeFloor("F1", WardWidth, WardHeight, <<0, 0>>,
                                    origin)>>,
             chargers |-> << >>],
            <<MakeAgent("a1", pos1, battery, 40, 0, 8, {"GENERAL"},
                        "NON_URGENT"),
              MakeAgent("a2", pos2, Pct(100), 40, 0, limit2, {"GENERAL"},
                        pool2)>>,
            js, defaultConfig) :
     origin \in {"open", "obstacle"},
     pos1 \in {<<1, 0>>, FarCorner},
     pos2 \in {<<0, 1>>, FarCorner},
     battery \in {Pct(22), Pct(100)},
     limit2 \in {4, 8},
     pool2 \in {"NON_URGENT", "URGENT"},
     js \in RosterJobs}

\* A long-running simulation: at 250 s two free carts and two URGENT jobs
\* are in the stores, j1 queued since the start and due in 100 s, j2 queued
\* for 10 s and due in 60 s; setConfig has set the starvation threshold.
StarvedTime == Secs(250)

StarvedCases ==
  {Scenario(WardMap("open", << >>),
            <<MakeAgent("a1", <<0, 0>>, Pct(100), 2, 0, 8, {"GENERAL"},
                        "NON_URGENT"),
              MakeAgent("a2", FarCorner, Pct(100), 2, 0, 8, {"GENERAL"},
                        "NON_URGENT")>>,
            <<[MakeJob("j1", TRUE, <<0, 1>>, <<WardWidth - 1, 0>>, 5,
                       "URGENT", 3)
                 EXCEPT !.deadline = StarvedTime + Secs(100)],
              [MakeJob("j2", TRUE, <<0, 1>>, <<WardWidth - 1, 0>>, 5,
                       "URGENT", 3)
                 EXCEPT !.deadline = StarvedTime + Secs(60),
                        !.createdAt = StarvedTime - Secs(10)]>>,
            [defaultConfig EXCEPT !.starvationThresholdSeconds = threshold]) :
     threshold \in {Secs(180), Secs(CONFIG_STARVATION)}}

PlanInit ==
  \/ /\ \E sc \in Scenarios \cup EndpointCases \cup RosterCases :
          /\ map = sc.map
          /\ agents = sc.agents
          /\ jobs = sc.jobs
     /\ Constructed
  \/ /\ \E sc \in StarvedCases :
          /\ map = sc.map
          /\ agents = sc.agents
          /\ jobs = sc.jobs
          /\ config = sc.config
     /\ currentTime = StarvedTime
     /\ currentPlan = NoPlan
     /\ replanCount = 0
     /\ agentStates = << >>
     /\ metrics = [totalEnergyWh |-> 0, idleWaitingSeconds |-> 0,
                   idleChargingSeconds |-> 0, movingWithPayload |-> 0,
                   movingWithoutPayload |-> 0, deliveredCount |-> 0,
                   onTimeCount |-> 0]
     /\ tickCount = 0
     /\ events = << >>
     /\ lastReplanTime = [valid |-> FALSE, time |-> 0]
     /\ lastQueuedJobIds = {}
     /\ call = NoCall

\* checkJobFeasibility(job, agents, map) for every job of the store.
CallCheckJobFeasibility ==
  /\ call = NoCall
  /\ call' = [fn |-> "checkJobFeasibility",
              feasible |-> [k \in DOMAIN jobs |->
                              checkJobFeasibility(jobs[k], agents, map)]]
  /\ UNCHANGED <<map, agents, jobs, currentTime, config, currentPlan,
                 replanCount, agentStates, metrics, tickCount, events,
                 lastReplanTime, lastQueuedJobIds>>

\* createPlan(jobs, agents, map, currentTime) on the stores; nothing is
\* written back.  The record keeps the plan of the call before, if there
\* was one, and the feasibility reports, if they were made.
CallCreatePlan ==
  /\ call.fn = "createPlan" => call.previous = Null
  /\ call' = [fn |-> "createPlan",
              result |-> createPlan(jobs, agents, map, currentTime),
              previous |-> IF call.fn = "createPlan" THEN <<call.result>>
                                                     ELSE Null,
              feasible |-> IF call.fn = "none" THEN Null ELSE call.feasible]
  /\ UNCHANGED <<map, agents, jobs, currentTime, config, currentPlan,
                 replanCount, agentStates, metrics, tickCount, events,
                 lastReplanTime, lastQueuedJobIds>>

PlanNext == CallCheckJobFeasibility \/ CallCreatePlan

PlanSpec == PlanInit /\ [][PlanNext]_vars

----------------------------------------------------------------------------
(* Properties.  Job and agent lists keep their length and order (no      *)
(* operation modelled here adds or removes an entry), so an index names  *)
(* the same job or agent before and after a step.                        *)

JobIds == {"j1", "j2"}

JobIn(id, states) ==
  \E k \in DOMAIN jobs : jobs[k].id = id /\ jobs[k].state \in states

\* The stored plan carries a route for the job: the dispatcher assigned it.
Planned(id) ==
  /\ currentPlan.present
  /\ \E n \in 1..Len(currentPlan.agentPlans) :
       \E m \in 1..Len(currentPlan.agentPlans[n].jobIds) :
         currentPlan.agentPlans[n].jobIds[m] = id

\* The agent the job is assigned to is at critical battery.
HolderCritical(id) ==
  \E k \in DOMAIN jobs : \E i \in DOMAIN agents :
    /\ jobs[k].id = id
    /\ jobs[k].assignedAgentId = agents[i].id
    /\ agents[i].battery <= Pct(CRITICAL_BATTERY)

\* C1: while every job is still QUEUED (so no dispatcher pass so far found
\* an agent for any job, and the queued id set never changed), the number
\* of dispatcher invocations in the first 20 simulated seconds is at most
\* ceil(20 / REPLAN_COOLDOWN) = 4.  Every invocation counted had a queued
\* job and an IDLE job-less agent: the trigger requires both.
C1_ReplansCooldownBounded ==
  (/\ jobs # << >>
   /\ \A k \in DOMAIN jobs : jobs[k].state = "QUEUED"
   /\ currentTime <= Secs(20))
  => replanCount <= (20 + REPLAN_COOLDOWN - 1) \div REPLAN_COOLDOWN

\* C2: a tick that finds a non-charging agent at battery <= 5% holding a
\* job leaves that job QUEUED with no assigned agent.
C2_CriticalJobRequeued ==
  [][\A i \in DOMAIN agents : \A k \in DOMAIN jobs :
       (/\ agents[i].status # "CHARGING"
        /\ agents[i].battery <= Pct(CRITICAL_BATTERY)
        /\ agents[i].currentJobId = jobs[k].id
        /\ jobs[k].state \in {"ASSIGNED", "IN_PROGRESS"})
       => (/\ jobs'[k].state = "QUEUED"
           /\ jobs'[k].assignedAgentId = NoId)]_vars

\* C3: a non-charging agent at battery <= 5% whose diversion to a charger
\* of its floor has been marked, with a path to that charger, advances one
\* cell along the path in the next tick, or turns CHARGING when it already
\* stands on the charger cell.
C3_CriticalAgentAdvances ==
  [][\A i \in DOMAIN agents :
       LET a == agents[i]
           charger == ChargerOnFloor(map, a.floorId)
           path == findPath(FindFloor(map, a.floorId), a.position,
                            charger[1].position, AsPathAgent(a))
       IN (/\ a.status # "CHARGING"
           /\ a.battery <= Pct(CRITICAL_BATTERY)
           /\ charger # Null
           /\ HasFloor(map, a.floorId)
           /\ a.id \in DOMAIN agentStates
           /\ agentStates[a.id].targetChargerPosition = charger[1].position
           /\ path # Null)
          => IF a.position = charger[1].position
               THEN agents'[i].status = "CHARGING"
               ELSE agents'[i].position = path[2]]_vars

\* C4: a job with a pickup leg changes state only along QUEUED -> ASSIGNED
\* -> IN_PROGRESS -> DELIVERED, one step at a time; and a job the stored
\* plan routes reaches DELIVERED unless its agent goes critical: the plan
\* is not dropped or replaced before the job is DELIVERED, and the job is
\* DELIVERED once the clock is DeliveryBudget past the plan's timestamp.
C4_Lifecycle ==
  [][/\ \A k \in DOMAIN jobs :
          (jobs[k].hasPickup /\ jobs'[k].state # jobs[k].state)
          => <<jobs[k].state, jobs'[k].state>> \in
               {<<"QUEUED", "ASSIGNED">>, <<"ASSIGNED", "IN_PROGRESS">>,
                <<"IN_PROGRESS", "DELIVERED">>}
     /\ \A id \in JobIds :
          (/\ Planned(id)
           /\ \E k \in DOMAIN jobs : jobs[k].id = id /\ jobs[k].hasPickup
           /\ \/ ~Planned(id)'
              \/ currentTime' >= currentPlan'.timestamp + DeliveryBudget)
          => (JobIn(id, {"DELIVERED"})' \/ HolderCritical(id)')]_vars

\* A job with a pickup leg that went through the whole lifecycle.
C4_Witness ==
  \E k \in DOMAIN jobs :
    /\ jobs[k].hasPickup
    /\ jobs[k].state = "DELIVERED"
    /\ jobs[k].assignedAgentId # NoId
    /\ jobs[k].progress.hasPickupTime
    /\ jobs[k].progress.pickupTime < jobs[k].progress.deliveredTime

\* C5: one empty cart and two queued jobs it could each serve (both within
\* its payload limit, battery well above the reserve, every cell reachable):
\* both jobs are DELIVERED after 11 simulated seconds.  One delivery on the
\* ward floor takes under 6 s, route and both actions included.
C5_QueuedJobRetried ==
  (/\ Len(agents) = 1
   /\ Len(jobs) = 2
   /\ \A k \in DOMAIN jobs :
        jobs[k].hasPickup /\ jobs[k].weight <= agents[1].payloadLimit
   /\ agents[1].currentPayload = 0
   /\ agents[1].battery > Pct(50)
   /\ currentTime >= Secs(11))
  => \A k \in DOMAIN jobs : jobs[k].state = "DELIVERED"

\* C6: a DELIVERED job is DELIVERED after every step.
C6_DeliveredIsFinal ==
  [][\A k \in DOMAIN jobs :
       jobs[k].state = "DELIVERED" => jobs'[k].state = "DELIVERED"]_vars

\* A job delivered before the latest dispatcher pass.
C6_Witness ==
  \E k \in DOMAIN jobs :
    /\ jobs[k].state = "DELIVERED"
    /\ lastReplanTime.valid
    /\ lastReplanTime.time > jobs[k].progress.deliveredTime

C8_PayloadWithinLimit ==
  \A i \in DOMAIN agents : agents[i].currentPayload <= agents[i].payloadLimit

\* C9: every agent's battery is between 0 and its maxBattery.
C9_BatteryInRange ==
  \A i \in DOMAIN agents :
    0 <= agents[i].battery /\ agents[i].battery <= agents[i].maxBattery

\* A move drained a battery down to the floor of 0.
C9_Witness ==
  \E i \in DOMAIN agents :
    /\ agents[i].battery = 0
    /\ agents[i].status = "MOVING"
    /\ metrics.totalEnergyWh > 0

\* C10: in the end-to-end scenario (corridor, one cart of speed 1 on the
\* pickup cell, 2 s service times, speed multiplier 1) the job's delivery
\* time is between 13 s and 14 s (CorridorLen - 1 s of movement + 2 s + 2 s)
\* and not after its deadline.
C10_EndToEndDeliveryTime ==
  (/\ map.floors[1].width = CorridorLen
   /\ map.floors[1].height = 1
   /\ config.speedMultiplier = 1
   /\ agents[1].speed = 1
   /\ jobs[1].state = "DELIVERED")
  => /\ jobs[1].progress.deliveredTime >= Secs(CorridorLen - 1 + 2 + 2)
     /\ jobs[1].progress.deliveredTime <= Secs(CorridorLen - 1 + 2 + 2 + 1)
     /\ jobs[1].progress.deliveredTime <= jobs[1].deadline

----------------------------------------------------------------------------
(* Properties of findPath, on the direct calls of PathSpec.  Traversable  *)
(* and StepsBetween restate the contract and share nothing with the       *)
(* search: StepsBetween floods the floor breadth first.                   *)

InGrid(floor, pos) ==
  pos[1] >= 0 /\ pos[1] < floor.width /\ pos[2] >= 0 /\ pos[2] < floor.height

\* The agent, if one is supplied, lacks every tag the cell asks for.
Denied(cell, agent) ==
  /\ agent.present
  /\ cell.isRestricted
  /\ cell.restrictedAccessProfiles # {}
  /\ \A tag \in agent.accessProfiles : tag \notin cell.restrictedAccessProfiles

Traversable(cell, agent) ==
  cell.walkable /\ ~cell.isObstacle /\ ~cell.isQuarantine /\ ~Denied(cell, agent)

Adjacent(p, q) == Abs(p[1] - q[1]) + Abs(p[2] - q[2]) = 1

\* The least number of steps of a sequence of 4-adjacent cells from the
\* frontier to end whose cells after the first are traversable, plus d;
\* -1 when there is none.
RECURSIVE StepsBetween(_, _, _, _, _, _)
StepsBetween(floor, agent, frontier, seen, end, d) ==
  IF end \in frontier THEN d
  ELSE IF frontier = {} THEN -1
  ELSE StepsBetween(
         floor, agent,
         {q \in DOMAIN floor.grid \ seen :
            /\ Traversable(floor.grid[q], agent)
            /\ \E p \in frontier : Adjacent(p, q)},
         seen \cup frontier, end, d + 1)

\* C11: a path findPath returns for in-bounds start and end begins at
\* start, ends at end, moves between 4-adjacent cells, enters only cells
\* the agent may traverse, and has the least number of steps of all such
\* paths.
C11_PathIsShortest ==
  (/\ call.fn = "findPath"
   /\ InGrid(call.floor, call.start)
   /\ InGrid(call.floor, call.end)
   /\ call.result # Null)
  => /\ call.result[1] = call.start
     /\ call.result[Len(call.result)] = call.end
     /\ \A i \in 2..Len(call.result) :
          /\ Adjacent(call.result[i - 1], call.result[i])
          /\ InGrid(call.floor, call.result[i])
          /\ Traversable(call.floor.grid[call.result[i]], call.agent)
     /\ Len(call.result) - 1 =
          StepsBetween(call.floor, call.agent, {call.start}, {}, call.end, 0)

\* A returned path that is longer than the Manhattan distance: a detour
\* around cells the agent may not enter.
C11_Witness ==
  /\ call.fn = "findPath"
  /\ call.result # Null
  /\ Len(call.result) - 1 > Abs(call.start[1] - call.end[1])
                              + Abs(call.start[2] - call.end[2]) + 2

\* C12: findPath returns no path exactly when start or end is outside the
\* grid, the end cell is not traversable for the agent, or no sequence of
\* 4-adjacent traversable cells leads from start to end.
C12_NoPathExactlyWhenUnreachable ==
  call.fn = "findPath"
  => (call.result = Null
      <=> \/ ~InGrid(call.floor, call.start)
          \/ ~InGrid(call.floor, call.end)
          \/ ~Traversable(call.floor.grid[call.end], call.agent)
          \/ StepsBetween(call.floor, call.agent, {call.start}, {},
                          call.end, 0) = -1)

\* No path although start and end are in the grid and the end cell is
\* traversable: the wall has no gap for this agent.
C12_Witness ==
  /\ call.fn = "findPath"
  /\ call.result = Null
  /\ InGrid(call.floor, call.start)
  /\ InGrid(call.floor, call.end)
  /\ Traversable(call.floor.grid[call.end], call.agent)
  /\ call.start # call.end

\* The cells of the floor that are closed to the agent for lack of a tag.
DeniedCells(floor, agent) ==
  {q \in DOMAIN floor.grid : Denied(floor.grid[q], agent)}

\* C13: a path returned for an agent that shares no tag with a restricted
\* cell's required profiles does not contain that cell after the start, and
\* there is no path for it to a target that is reachable only through such
\* cells (reachable with every tag, unreachable without).
C13_RestrictedCellsRespected ==
  (/\ call.fn = "findPath"
   /\ InGrid(call.floor, call.start)
   /\ InGrid(call.floor, call.end)
   /\ DeniedCells(call.floor, call.agent) # {})
  => /\ call.result # Null
          => \A i \in 2..Len(call.result) :
               call.result[i] \notin DeniedCells(call.floor, call.agent)
     /\ StepsBetween(call.floor, call.agent, {call.start}, {}, call.end, 0)
          = -1
          => call.result = Null

\* Both halves happen: an agent with the ICU tag is routed through an
\* ICU-only cell.
C13_Witness ==
  /\ call.fn = "findPath"
  /\ call.agent.present
  /\ "ICU" \in call.agent.accessProfiles
  /\ call.result # Null
  /\ \E i \in 2..(Len(call.result) - 1) :
       call.floor.grid[call.result[i]].isRestricted

\* C14: a quarantined cell is never a position after the start of a
\* returned path, nor the end of one, with or without an agent and
\* whatever the agent's access profiles.
C14_QuarantineNeverEntered ==
  (call.fn = "findPath" /\ call.result # Null)
  => /\ \A i \in 2..Len(call.result) :
          ~call.floor.grid[call.result[i]].isQuarantine
     /\ ~call.floor.grid[call.end].isQuarantine

\* A path returned without an agent that goes round a quarantined cell
\* lying straight between start and end.
C14_Witness ==
  /\ call.fn = "findPath"
  /\ ~call.agent.present
  /\ call.result # Null
  /\ call.start[2] = call.end[2]
  /\ \E q \in DOMAIN call.floor.grid :
       /\ call.floor.grid[q].isQuarantine
       /\ q[2] = call.start[2]
       /\ call.start[1] < q[1] /\ q[1] < call.end[1]

----------------------------------------------------------------------------
(* Properties of the priority score, on the direct calls of PrioritySpec. *)
(* TierRank, DeadlineTerm and Discount restate the score's definition.    *)

TierRank(tier) ==
  CASE tier = "IMMEDIATE" -> 0
    [] tier = "EMERGENCY" -> 1
    [] tier = "URGENT" -> 2
    [] tier = "SEMI_URGENT" -> 3
    [] tier = "NON_URGENT" -> 4

\* max(0, deadline - t)
DeadlineTerm(job, t) == IF job.deadline > t THEN job.deadline - t ELSE 0

ScoreCall == call.fn = "calculateEffectivePriority"

SortCall == call.fn = "sortJobsByPriority"

\* A is of a strictly more urgent tier than B, in a call on A and B.
AMoreUrgent ==
  /\ ScoreCall \/ SortCall
  /\ TierRank(call.a.priority) < TierRank(call.b.priority)

TierGap == TierRank(call.b.priority) - TierRank(call.a.priority)

C16_StarvationNeverCrossesTier ==
  (/\ ScoreCall
   /\ AMoreUrgent
   /\ DeadlineTerm(call.a, call.now) - DeadlineTerm(call.b, call.now)
        < Secs(500)
   /\ DeadlineTerm(call.b, call.now) - DeadlineTerm(call.a, call.now)
        < Secs(500))
  => call.scoreA < call.scoreB

\* Adjacent tiers, A due 499.9 s after B, B with the full discount and A
\* with none: the scores are 0.1 apart.
C16_Witness ==
  /\ ScoreCall
  /\ TierGap = 1
  /\ call.scoreB - call.scoreA = 1
  /\ call.now - call.b.createdAt >= call.threshold + Secs(500)
  /\ call.now - call.a.createdAt <= call.threshold

\* What the score of job a lost to starvation.
Discount ==
  TierRank(call.a.priority) * Secs(1000) + DeadlineTerm(call.a, call.now)
    - call.scoreA

WaitOfA == call.now - call.a.createdAt

\* C17: the discount of a non-IMMEDIATE job is 0 up to the threshold S,
\* waitTime - S between S and S + 500, and 500 from S + 500 on; the
\* discount of an IMMEDIATE job is 0.
C17_StarvationDiscount ==
  ScoreCall
  => Discount =
       IF call.a.priority = "IMMEDIATE" THEN 0
       ELSE IF WaitOfA <= call.threshold THEN 0
       ELSE IF WaitOfA < call.threshold + Secs(500)
         THEN WaitOfA - call.threshold
       ELSE Secs(500)

\* The last value of the example: a job that is not IMMEDIATE has waited
\* S + 600 and is discounted by 500.
C17_Witness ==
  /\ ScoreCall
  /\ call.a.priority # "IMMEDIATE"
  /\ WaitOfA = call.threshold + Secs(600)
  /\ Discount = Secs(500)

----------------------------------------------------------------------------
(* Properties of the dispatcher, on the direct calls of PlanSpec.         *)

PlanCall == call.fn = "createPlan"

\* The plan gives job id a route.
AssignedIn(plan, id) ==
  \E n \in 1..Len(plan.agentPlans) :
    \E i \in 1..Len(plan.agentPlans[n].jobIds) :
      plan.agentPlans[n].jobIds[i] = id

C19_InfeasibleNotRetried ==
  \A k \in DOMAIN jobs :
    (/\ replanCount >= 2
     /\ HasFloor(map, jobs[k].dropoff.floorId)
     /\ \/ \A i \in DOMAIN agents : agents[i].payloadLimit < jobs[k].weight
        \/ ~WalkableFlag(FindFloor(map, jobs[k].dropoff.floorId),
                         jobs[k].dropoff.position)
        \/ jobs[k].hasPickup
             /\ ~WalkableFlag(FindFloor(map, jobs[k].dropoff.floorId),
                              jobs[k].pickup.position))
    => /\ jobs[k].state = "INFEASIBLE"
       /\ \A i \in 1..Len(currentPlan.unassignedJobIds) :
            currentPlan.unassignedJobIds[i] # jobs[k].id

\* C20: every job that createPlan assigns was reported feasible by
\* checkJobFeasibility for the same agents and map.
C20_AssignedJobsAreFeasible ==
  (PlanCall /\ call.feasible # Null)
  => \A k \in DOMAIN jobs :
       AssignedIn(call.result, jobs[k].id) => call.feasible[k].feasible

\* One job assigned and reported feasible next to one that is reported
\* feasible and yet not assigned: the report is necessary, not sufficient.
C20_Witness ==
  /\ PlanCall
  /\ call.feasible # Null
  /\ \E k \in DOMAIN jobs : AssignedIn(call.result, jobs[k].id)
  /\ \E k \in DOMAIN jobs :
       /\ call.feasible[k].feasible
       /\ ~AssignedIn(call.result, jobs[k].id)

-----------------------------------------------------------------------------
(* Properties of route completion (claims C21..C23, C25, C26) *)

\* The stored plan carries a non-empty route for the agent.
RoutedIn(plan, agentId) ==
  /\ plan.present
  /\ \E n \in 1..Len(plan.agentPlans) :
       /\ plan.agentPlans[n].agentId = agentId
       /\ Len(plan.agentPlans[n].route) # 0

\* The agent's route in the plan is not marked completed in the states.
RouteActive(plan, states, agentId) ==
  /\ RoutedIn(plan, agentId)
  /\ agentId \in DOMAIN states => ~states[agentId].routeCompleted

\* The same dispatcher result is stored before and after the step.
SamePlanStored ==
  /\ currentPlan.present
  /\ currentPlan'.present
  /\ currentPlan'.timestamp = currentPlan.timestamp
  /\ currentPlan'.agentPlans = currentPlan.agentPlans

\* C21: in the tick in which a job goes to DELIVERED (a route carries one
\* job, so it is the last undelivered job of the route), the agent the job
\* is assigned to ends the tick with no current job and payload 0.
C21_LastDropoffClearsAgent ==
  [][\A i \in DOMAIN agents : \A k \in DOMAIN jobs :
       (/\ jobs[k].assignedAgentId = agents[i].id
        /\ jobs[k].state # "DELIVERED"
        /\ jobs'[k].state = "DELIVERED")
       => /\ agents'[i].currentJobId = NoId
          /\ agents'[i].currentPayload = 0]_vars

\* C22: an agent whose route is marked completed (and who is not at
\* critical battery) stays on its cell with status IDLE for as long as the
\* same plan remains stored.
C22_CompletedRouteStaysPut ==
  [][\A i \in DOMAIN agents :
       (/\ SamePlanStored
        /\ RoutedIn(currentPlan, agents[i].id)
        /\ agents[i].id \in DOMAIN agentStates
        /\ agentStates[agents[i].id].routeCompleted
        /\ agentStates[agents[i].id].targetChargerPosition = Null
        /\ agents[i].battery > Pct(CRITICAL_BATTERY)
        /\ agents[i].status = "IDLE")
       => /\ agents'[i].position = agents[i].position
          /\ agents'[i].status = "IDLE"]_vars

\* C23: in the tick in which the route of a job without pickup leg becomes
\* completed by its DROPOFF action (the agent is not at critical battery),
\* the job is DELIVERED.
C23_DropoffOnlyJobDelivered ==
  [][\A i \in DOMAIN agents : \A k \in DOMAIN jobs :
       (/\ ~jobs[k].hasPickup
        /\ jobs[k].assignedAgentId = agents[i].id
        /\ agents[i].status = "DROPPING_OFF"
        /\ agents[i].battery > Pct(CRITICAL_BATTERY)
        /\ SamePlanStored \/ ~currentPlan'.present
        /\ RouteActive(currentPlan, agentStates, agents[i].id)
        /\ agents'[i].status = "IDLE")
       => jobs'[k].state = "DELIVERED"]_vars

-----------------------------------------------------------------------------
(* Properties of the dispatcher's agent choice (claims C24, C27..C30) *)

\* The least number of steps of a path of the agent from one cell to
\* another, whose end cell the agent may enter; -1 when there is none.
Reach(floor, a, from, to) ==
  LET walker == [present |-> TRUE, accessProfiles |-> a.accessProfiles]
  IN IF ~InGrid(floor, from) \/ ~InGrid(floor, to) THEN -1
     ELSE IF ~Traversable(floor.grid[to], walker) THEN -1
     ELSE StepsBetween(floor, walker, {from}, {}, to, 0)

\* Steps of the legs of the job for the agent: agent to pickup to dropoff,
\* or agent to dropoff for a job without pickup; -1 when a leg has no path.
LegsOf(floor, a, job) ==
  IF job.hasPickup
    THEN IF Reach(floor, a, a.position, job.pickup.position) = -1
              \/ Reach(floor, a, job.pickup.position,
                       job.dropoff.position) = -1
           THEN -1
           ELSE Reach(floor, a, a.position, job.pickup.position)
                + Reach(floor, a, job.pickup.position, job.dropoff.position)
    ELSE Reach(floor, a, a.position, job.dropoff.position)

\* The agent is free to take work: idle, no job, battery above the low mark.
FreeAgent(a) ==
  a.status = "IDLE" /\ a.currentJobId = NoId /\ a.battery > Pct(20)

\* The agent qualifies for the job on the job's own legs.
Qualifies(a, job) ==
  /\ FreeAgent(a)
  /\ a.payloadLimit >= job.weight
  /\ a.floorId = job.dropoff.floorId
  /\ \E f \in DOMAIN map.floors :
       /\ map.floors[f].id = job.dropoff.floorId
       /\ LegsOf(map.floors[f], a, job) >= 0
       /\ a.battery - LegsOf(map.floors[f], a, job) * a.batteryDrainRate
            >= Pct(10)

\* C24: a job without pickup leg is judged on the path from the agent's
\* position to the dropoff alone: when it is the only job and every agent
\* of the roster qualifies for it on that path, the plan assigns it.
C24_DropoffOnlyJudgedOnOwnPath ==
  (/\ PlanCall
   /\ Len(jobs) = 1
   /\ jobs[1].state = "QUEUED"
   /\ ~jobs[1].hasPickup
   /\ \A i \in DOMAIN agents : Qualifies(agents[i], jobs[1]))
  => AssignedIn(call.result, jobs[1].id)

\* The stores and agent states as the agent loop of the coming tick
\* leaves them, before the replan trigger is evaluated.
LoopOutcome ==
  ProcessAgents([agents |-> agents, jobs |-> jobs,
                 agentStates |-> agentStates, metrics |-> metrics,
                 events |-> events],
                1, agents, jobs, currentPlan, map,
                currentTime + config.speedMultiplier, config.speedMultiplier)

\* C26: the dispatcher is invoked (the replan count goes up) only in a tick
\* that has, at its start and after its agent loop, at least one QUEUED job
\* and at least one agent that is IDLE with no job, and at whose end no
\* route of the stored plan is still active.
C26_ReplanOnlyWhenRoutesDone ==
  [][replanCount' # replanCount
     => /\ \E k \in DOMAIN jobs :
             /\ jobs[k].state = "QUEUED"
             /\ LoopOutcome.jobs[k].state = "QUEUED"
        /\ \E i \in DOMAIN agents :
             /\ agents[i].status = "IDLE"
             /\ agents[i].currentJobId = NoId
             /\ LoopOutcome.agents[i].status = "IDLE"
             /\ LoopOutcome.agents[i].currentJobId = NoId
        /\ \A i \in DOMAIN agents :
             ~RouteActive(currentPlan, LoopOutcome.agentStates,
                          agents[i].id)]_vars

\* The dispatcher ran again after a route was carried out: a job is
\* delivered, another is still queued, and the plan was made anew.
C26_Witness ==
  /\ replanCount >= 2
  /\ \E k \in DOMAIN jobs : jobs[k].state = "DELIVERED"
  /\ \E k \in DOMAIN jobs : jobs[k].state = "QUEUED"

-----------------------------------------------------------------------------
(* Properties of createPlan results (claims C27..C30) *)

\* The plan gives the job to the agent.
GivenTo(plan, agentId, jobId) ==
  \E n \in 1..Len(plan.agentPlans) :
    /\ plan.agentPlans[n].agentId = agentId
    /\ \E i \in 1..Len(plan.agentPlans[n].jobIds) :
         plan.agentPlans[n].jobIds[i] = jobId

\* C27: every agent createPlan assigns to a job was, in the input, IDLE
\* with no current job and battery above 20, can carry the job's weight,
\* is on the dropoff's floor, has a path it may travel for each leg, and
\* keeps at least 10 of battery after the drain of the legs.
C27_AssignedAgentsQualify ==
  PlanCall
  => \A i \in DOMAIN agents : \A k \in DOMAIN jobs :
       GivenTo(call.result, agents[i].id, jobs[k].id)
       => Qualifies(agents[i], jobs[k])

\* One job is given to an agent while another job stays unassigned
\* because no agent of the roster qualifies for it.
C27_Witness ==
  /\ PlanCall
  /\ \E i \in DOMAIN agents : \E k \in DOMAIN jobs :
       GivenTo(call.result, agents[i].id, jobs[k].id)
  /\ \E k \in DOMAIN jobs :
       /\ jobs[k].state = "QUEUED"
       /\ ~AssignedIn(call.result, jobs[k].id)
       /\ \A i \in DOMAIN agents : ~Qualifies(agents[i], jobs[k])

\* How often the plan names the job: in the job ids of its agent plans
\* and in its unassigned ids.
Mentions(plan, id) ==
  Cardinality({c \in (1..Len(plan.agentPlans)) \X (1..Len(jobs)) :
                 /\ c[2] <= Len(plan.agentPlans[c[1]].jobIds)
                 /\ plan.agentPlans[c[1]].jobIds[c[2]] = id})
  + Cardinality({i \in 1..Len(plan.unassignedJobIds) :
                   plan.unassignedJobIds[i] = id})

\* C28: a createPlan result names every QUEUED input job exactly once, in
\* one agent plan's job ids or in the unassigned ids, and names no job in
\* another state and no id that is not an input job; every agent has at
\* most one agent plan and every agent plan carries exactly one job.
C28_PlanPartitionsQueuedJobs ==
  PlanCall
  => /\ \A k \in DOMAIN jobs :
          Mentions(call.result, jobs[k].id)
            = IF jobs[k].state = "QUEUED" THEN 1 ELSE 0
     /\ \A i \in 1..Len(call.result.unassignedJobIds) :
          \E k \in DOMAIN jobs :
            jobs[k].id = call.result.unassignedJobIds[i]
     /\ \A n \in 1..Len(call.result.agentPlans) :
          /\ Len(call.result.agentPlans[n].jobIds) = 1
          /\ \E k \in DOMAIN jobs :
               jobs[k].id = call.result.agentPlans[n].jobIds[1]
          /\ \A o \in 1..Len(call.result.agentPlans) :
               call.result.agentPlans[o].agentId
                 = call.result.agentPlans[n].agentId => o = n

\* Two queued jobs and one agent that qualifies for both: one job gets
\* the agent, the other is listed as unassigned.
C28_Witness ==
  /\ PlanCall
  /\ Len(call.result.agentPlans) = 1
  /\ Len(call.result.unassignedJobIds) = 1
  /\ \E i \in DOMAIN agents : \A k \in DOMAIN jobs :
       jobs[k].state = "QUEUED" /\ Qualifies(agents[i], jobs[k])
  /\ Len(jobs) = 2

\* Plan n of the result gives an agent of the other pool to its job
\* although an agent of the job's own pool (URGENT for an IMMEDIATE or
\* EMERGENCY job, NON_URGENT for any other) was free and not claimed by
\* an earlier plan of the result.
CrossPool(plan, n) ==
  \E i \in DOMAIN agents : \E k \in DOMAIN jobs : \E b \in DOMAIN agents :
    /\ plan.agentPlans[n].agentId = agents[i].id
    /\ plan.agentPlans[n].jobIds[1] = jobs[k].id
    /\ IF jobs[k].priority \in {"IMMEDIATE", "EMERGENCY"}
         THEN agents[i].pool = "NON_URGENT" /\ agents[b].pool = "URGENT"
         ELSE agents[i].pool = "URGENT" /\ agents[b].pool = "NON_URGENT"
    /\ FreeAgent(agents[b])
    /\ \A o \in 1..(n - 1) : plan.agentPlans[o].agentId # agents[b].id

\* C29: createPlan gives an urgent job an agent of pool NON_URGENT only if
\* no free, unclaimed agent is in pool URGENT, and a non-urgent job an
\* agent of pool URGENT only if no free, unclaimed agent is in pool
\* NON_URGENT.
C29_OtherPoolOnlyWhenOwnIsEmpty ==
  PlanCall
  => \A n \in 1..Len(call.result.agentPlans) : ~CrossPool(call.result, n)

\* A non-urgent job gets an URGENT-pool agent after the free
\* NON_URGENT-pool agent of the roster was claimed by the plan before it.
C29_Witness ==
  /\ PlanCall
  /\ Len(call.result.agentPlans) = 2
  /\ \E i \in DOMAIN agents : \E k \in DOMAIN jobs : \E b \in DOMAIN agents :
       /\ GivenTo(call.result, agents[i].id, jobs[k].id)
       /\ jobs[k].priority \notin {"IMMEDIATE", "EMERGENCY"}
       /\ agents[i].pool = "URGENT"
       /\ agents[b].pool = "NON_URGENT"
       /\ FreeAgent(agents[b])
       /\ call.result.agentPlans[1].agentId = agents[b].id

\* Steps of the job's legs for the agent on the job's floor.
LegsFor(a, job) ==
  LegsOf(map.floors[CHOOSE f \in DOMAIN map.floors :
                      map.floors[f].id = job.dropoff.floorId], a, job)

\* Plan n of the result passes over agent b of the roster: b was not
\* claimed by an earlier plan, is in the pool of the agent chosen and
\* qualifies for the job, and b's legs are shorter than the chosen
\* agent's, or as long with b earlier in the roster.
PassedOver(plan, n, b) ==
  \E i \in DOMAIN agents : \E k \in DOMAIN jobs :
    /\ plan.agentPlans[n].agentId = agents[i].id
    /\ plan.agentPlans[n].jobIds[1] = jobs[k].id
    /\ agents[b].pool = agents[i].pool
    /\ \A o \in 1..(n - 1) : plan.agentPlans[o].agentId # agents[b].id
    /\ Qualifies(agents[b], jobs[k])
    /\ \/ LegsFor(agents[b], jobs[k]) < LegsFor(agents[i], jobs[k])
       \/ /\ LegsFor(agents[b], jobs[k]) = LegsFor(agents[i], jobs[k])
          /\ b < i

\* C30: of the candidates that pass all filters for a job, createPlan
\* assigns the one with the least total path length over the job's legs,
\* and of several with the least length the first in roster order.
C30_NearestCandidateChosen ==
  PlanCall
  => \A n \in 1..Len(call.result.agentPlans) : \A b \in DOMAIN agents :
       ~PassedOver(call.result, n, b)

-----------------------------------------------------------------------------
(* Properties of the dispatch order (claim C31) *)

\* The queued jobs in the order createPlan serves them.
ServingOrder ==
  LET Queued(j) == j.state = "QUEUED"
  IN sortJobsByPriority(SelectSeq(jobs, Queued), currentTime)

\* The pool a job prefers.
OwnPool(job) ==
  IF job.priority \in {"IMMEDIATE", "EMERGENCY"} THEN "URGENT"
                                                  ELSE "NON_URGENT"

\* Some free agent of the job's own pool is not claimed by the plan of a
\* job served before position a.
OwnPoolOpen(plan, a) ==
  \E f \in DOMAIN agents :
    /\ FreeAgent(agents[f])
    /\ agents[f].pool = OwnPool(ServingOrder[a])
    /\ \A c \in 1..(a - 1) :
         ~GivenTo(plan, agents[f].id, ServingOrder[c].id)

\* Job a of the serving order, which has a pickup leg, is left without an
\* agent although the plan gives agent x, who qualifies for it, to a job
\* served later.
Overtaken(plan, a, x) ==
  /\ ServingOrder[a].hasPickup
  /\ Qualifies(agents[x], ServingOrder[a])
  /\ \E b \in (a + 1)..Len(ServingOrder) :
       GivenTo(plan, agents[x].id, ServingOrder[b].id)
  /\ ~AssignedIn(plan, ServingOrder[a].id)

-----------------------------------------------------------------------------
(* Properties of the executor's steps (claims C32..C38) *)

\* The route step the agent's cursor is on is a PICKUP or DROPOFF step of
\* its route in the stored plan.
OnActionStep(agentId) ==
  /\ RoutedIn(currentPlan, agentId)
  /\ agentId \in DOMAIN agentStates
  /\ agentStates[agentId].currentStepIndex >= 0
  /\ agentStates[agentId].currentStepIndex
       < Len(FindAgentPlan(currentPlan, agentId).route)
  /\ FindAgentPlan(currentPlan, agentId)
       .route[agentStates[agentId].currentStepIndex + 1].action
       \in {"PICKUP", "DROPOFF"}

\* The step under the agent's cursor.
CursorStep(agentId) ==
  FindAgentPlan(currentPlan, agentId)
    .route[agentStates[agentId].currentStepIndex + 1]

\* C32: the cursor of an agent leaves a PICKUP or DROPOFF step only in a
\* tick before which the action had started, at whose time at least the
\* step's duration has passed since the start, and with the agent on the
\* action cell; and while an action is started the agent's position does
\* not change.
C32_ActionTakesItsDuration ==
  [][\A i \in DOMAIN agents :
       OnActionStep(agents[i].id)
       => /\ LoopOutcome.agentStates[agents[i].id].currentStepIndex
               # agentStates[agents[i].id].currentStepIndex
             => /\ agentStates[agents[i].id].actionStarted
                /\ currentTime' - agentStates[agents[i].id].actionStartTime
                     >= CursorStep(agents[i].id).duration
                /\ agents[i].position = CursorStep(agents[i].id).position
                /\ agents'[i].position = agents[i].position
          /\ agentStates[agents[i].id].actionStarted
             => agents'[i].position = agents[i].position]_vars

\* A pickup was completed in the tick just taken, a service time after
\* the agent began it.
C32_Witness ==
  \E k \in DOMAIN jobs :
    /\ jobs[k].state = "IN_PROGRESS"
    /\ jobs[k].progress.hasPickupTime
    /\ jobs[k].progress.pickupTime = currentTime
    /\ jobs[k].pickupServiceTime > 1
    /\ currentTime > jobs[k].pickupServiceTime

\* The cell of the agent's floor at a position of the grid.
CellFor(a, pos) ==
  map.floors[CHOOSE f \in DOMAIN map.floors :
               map.floors[f].id = a.floorId].grid[pos]

\* C33: in one tick an agent's position changes by at most one cell, and
\* only to a 4-adjacent cell of the grid that the agent may traverse:
\* walkable, no obstacle, not quarantined and open to its access tags.
C33_OneTraversableCellPerTick ==
  [][\A i \in DOMAIN agents :
       agents'[i].position # agents[i].position
       => /\ Adjacent(agents[i].position, agents'[i].position)
          /\ \E f \in DOMAIN map.floors :
               /\ map.floors[f].id = agents[i].floorId
               /\ InGrid(map.floors[f], agents'[i].position)
          /\ Traversable(CellFor(agents[i], agents'[i].position),
                         [present |-> TRUE,
                          accessProfiles |-> agents[i].accessProfiles])]_vars

\* An agent on the move stands next to a cell it may not enter: it is
\* going around it.
C33_Witness ==
  \E i \in DOMAIN agents : \E f \in DOMAIN map.floors :
    /\ map.floors[f].id = agents[i].floorId
    /\ agents[i].status = "MOVING"
    /\ agents[i].position = <<1, 1>>
    /\ ~Traversable(map.floors[f].grid[<<1, 0>>],
                    [present |-> TRUE,
                     accessProfiles |-> agents[i].accessProfiles])

\* C34: an agent whose route in the stored plan is still active has more
\* than 5 of battery, before and after every tick, and in the tick in
\* which its route is completed it is left with at least 10.
C34_RouteWithinBattery ==
  [][\A i \in DOMAIN agents :
       /\ RouteActive(currentPlan, agentStates, agents[i].id)
          => agents[i].battery > Pct(5)
       /\ RouteActive(currentPlan', agentStates', agents[i].id)
          => agents'[i].battery > Pct(5)
       /\ (/\ RouteActive(currentPlan, agentStates, agents[i].id)
           /\ LoopOutcome.agentStates[agents[i].id].routeCompleted)
          => agents'[i].battery >= Pct(10)]_vars

\* A route was completed by an agent that is left with the reserve of 10
\* exactly.
C34_Witness ==
  \E i \in DOMAIN agents :
    /\ RoutedIn(currentPlan, agents[i].id)
    /\ agents[i].id \in DOMAIN agentStates
    /\ agentStates[agents[i].id].routeCompleted
    /\ agents[i].status = "IDLE"
    /\ agents[i].battery = Pct(10)

\* The agent is IDLE without a job and without a route in the stored plan,
\* the dispatcher's battery test (more than 20) turns it down, and a
\* charger of its floor can be reached from its cell.
LowAndIdle(a) ==
  /\ a.status = "IDLE"
  /\ a.currentJobId = NoId
  /\ ~RoutedIn(currentPlan, a.id)
  /\ a.battery <= Pct(20)
  /\ \E c \in DOMAIN map.chargers, f \in DOMAIN map.floors :
       /\ map.chargers[c].floorId = a.floorId
       /\ map.floors[f].id = a.floorId
       /\ Reach(map.floors[f], a, a.position, map.chargers[c].position) >= 0

\* C35: an idle agent the dispatcher turns down for its battery and that
\* can reach a charger of its floor heads for a charger: the agent loop of
\* the next tick leaves it with a charger target.
C35_LowIdleAgentSeeksCharger ==
  [][\A i \in DOMAIN agents :
       LowAndIdle(agents[i])
       => LoopOutcome.agentStates[agents[i].id].targetChargerPosition
            # Null]_vars

\* The rate of the charger under the agent, 5 per second when the agent
\* stands on no charger, in battery units per clock unit.
RateUnder(a) ==
  IF \E c \in DOMAIN map.chargers :
       /\ map.chargers[c].floorId = a.floorId
       /\ map.chargers[c].position = a.position
    THEN LET c == CHOOSE k \in DOMAIN map.chargers :
                    /\ map.chargers[k].floorId = a.floorId
                    /\ map.chargers[k].position = a.position
                    /\ \A n \in DOMAIN map.chargers :
                         (/\ map.chargers[n].floorId = a.floorId
                          /\ map.chargers[n].position = a.position) => k <= n
         IN IF map.chargers[c].chargeRate # 0 THEN map.chargers[c].chargeRate
                                              ELSE 5
    ELSE 5

\* What one tick does to a CHARGING agent.
ChargingTick(i) ==
  LET a == agents[i]
  IN a.status = "CHARGING"
     => /\ agents'[i].position = a.position
        /\ agents'[i].battery
             = Min(a.maxBattery,
                   a.battery + RateUnder(a) * config.speedMultiplier)
        /\ a.battery < Pct(95)
           => /\ agents'[i].status = "CHARGING"
              /\ agents'[i].battery > a.battery
        /\ a.battery >= Pct(95)
           => /\ agents'[i].status = "IDLE"
              /\ LoopOutcome.agentStates[a.id].targetChargerPosition = Null
              /\ a.id \in DOMAIN agentStates'
                 => agentStates'[a.id].targetChargerPosition = Null

\* C36: a CHARGING agent keeps its position and gains charge rate x slice
\* (up to its maximum) per tick; below 95 it stays CHARGING with strictly
\* more battery than before, and seen at 95 or more it goes IDLE with its
\* charger target cleared; so the battery of a CHARGING agent climbs tick
\* by tick until the agent is released.
C36_ChargingEnds == [][\A i \in DOMAIN agents : ChargingTick(i)]_vars

\* An agent found docked below 95 has charged for three ticks, the last of
\* them the tick that saw it at 95 and released it.
C36_Witness ==
  \E i \in DOMAIN agents :
    /\ agents[i].status = "IDLE"
    /\ agents[i].battery >= Pct(95)
    /\ agents[i].battery < Pct(100)
    /\ agents[i].position = FarCorner
    /\ metrics.idleChargingSeconds = 3
    /\ agents[i].id \in DOMAIN agentStates
    /\ agentStates[agents[i].id].targetChargerPosition = Null

\* The agent's cursor on its route, -1 before its state exists.
CursorOf(a) ==
  IF a.id \in DOMAIN agentStates THEN agentStates[a.id].currentStepIndex
                                 ELSE -1

\* The agent loop of the coming tick takes the agent to the route-following
\* branches: it is not CHARGING, its battery is above 5, it has no charger
\* target and the stored plan holds a route for it.
FollowsRoute(a) ==
  /\ a.status # "CHARGING"
  /\ a.battery > Pct(5)
  /\ a.id \in DOMAIN agentStates
     => agentStates[a.id].targetChargerPosition = Null
  /\ RoutedIn(currentPlan, a.id)
  /\ CursorOf(a) < Len(FindAgentPlan(currentPlan, a.id).route)

\* The cell the route sends the agent to: the first step before the route
\* is entered, the step under the cursor after that.
RouteTarget(a) ==
  FindAgentPlan(currentPlan, a.id).route[Max(CursorOf(a), 0) + 1].position

\* The agent is away from the cell its route sends it to and no sequence
\* of traversable cells leads there.
BlockedOnRoute(a) ==
  /\ FollowsRoute(a)
  /\ a.position # RouteTarget(a)
  /\ \E f \in DOMAIN map.floors :
       /\ map.floors[f].id = a.floorId
       /\ Reach(map.floors[f], a, a.position, RouteTarget(a)) = -1

\* An AGENT_DELAYED event for the agent stamped with the time.
DelayReported(evs, agentId, time) ==
  \E e \in DOMAIN evs :
    /\ evs[e].type = "AGENT_DELAYED"
    /\ evs[e].agentId = agentId
    /\ evs[e].timestamp = time

\* C37: in a tick in which an agent following a route has to move and no
\* path leads to the cell it has to reach, the agent's position and
\* battery stay as they are and an AGENT_DELAYED event for the agent is
\* emitted with the time of the tick.
C37_NoPathIsReported ==
  [][\A i \in DOMAIN agents :
       (currentTime' # currentTime /\ BlockedOnRoute(agents[i]))
       => /\ agents'[i].position = agents[i].position
          /\ agents'[i].battery = agents[i].battery
          /\ DelayReported(events', agents[i].id, currentTime')]_vars

\* The job carries a delivery time.
MarkedDelivered(j) == j.progress.present /\ j.progress.hasDeliveredTime

\* The delivered and on-time counters against the job list.
CountersAgree(js, m) ==
  /\ m.deliveredCount = Cardinality({k \in DOMAIN js : MarkedDelivered(js[k])})
  /\ m.onTimeCount <= m.deliveredCount
  /\ m.deliveredCount <= Len(js)

\* C38: a job is marked delivered only in a tick before which it was
\* marked picked up, a delivery mark is never written again, the delivered
\* counter goes up by the number of jobs the tick marks delivered and
\* equals the number of jobs marked delivered, and onTimeCount <=
\* deliveredCount <= number of jobs before and after every tick.
C38_DeliveredOnce ==
  [][/\ \A k \in DOMAIN jobs :
          /\ (~MarkedDelivered(jobs[k]) /\ MarkedDelivered(jobs'[k]))
             => jobs[k].progress.present /\ jobs[k].progress.pickedUp
          /\ MarkedDelivered(jobs[k])
             => /\ MarkedDelivered(jobs'[k])
                /\ jobs'[k].progress.deliveredTime
                     = jobs[k].progress.deliveredTime
     /\ metrics'.deliveredCount - metrics.deliveredCount
          = Cardinality({k \in DOMAIN jobs : /\ ~MarkedDelivered(jobs[k])
                                             /\ MarkedDelivered(jobs'[k])})
     /\ CountersAgree(jobs, metrics)
     /\ CountersAgree(jobs', metrics')]_vars

\* Two jobs are delivered, one of them after its deadline and one of them
\* at least 3 s ago.
C38_Witness ==
  /\ metrics.deliveredCount = 2
  /\ metrics.onTimeCount = 1
  /\ \E k \in DOMAIN jobs :
       /\ MarkedDelivered(jobs[k])
       /\ jobs[k].progress.deliveredTime > jobs[k].deadline
  /\ \E k \in DOMAIN jobs :
       /\ MarkedDelivered(jobs[k])
       /\ jobs[k].progress.deliveredTime + Secs(3) <= currentTime

----------------------------------------------------------------------------
(* Shape of the routes (claim C39) *)

\* Steps n and n + 1 of the route are on 4-adjacent cells or on one cell.
StepsJoin(route, n) ==
  \/ route[n + 1].position = route[n].position
  \/ Adjacent(route[n].position, route[n + 1].position)

\* C39: in every route of a plan createPlan returns, each two consecutive
\* steps are on 4-adjacent cells or on the same cell.
C39_RouteStepsJoin ==
  PlanCall
  => \A n \in 1..Len(call.result.agentPlans) :
       \A k \in 1..(Len(call.result.agentPlans[n].route) - 1) :
         StepsJoin(call.result.agentPlans[n].route, k)

\* A route with a pickup leg of at least two cells and a dropoff leg of at
\* least three: it holds steps on neighbouring cells and, at each action,
\* steps on one cell.
C39_Witness ==
  /\ PlanCall
  /\ \E n \in 1..Len(call.result.agentPlans) :
       LET route == call.result.agentPlans[n].route
       IN /\ Len(route) >= 7
          /\ \E k \in 1..(Len(route) - 1) :
               /\ route[k].action = "NONE"
               /\ route[k + 1].action = "PICKUP"
               /\ route[k + 1].position = route[k].position
               /\ k >= 2
               /\ route[k - 1].position # route[k].position
          /\ route[Len(route)].action = "DROPOFF"
          /\ route[Len(route) - 2].position # route[Len(route)].position

----------------------------------------------------------------------------
(* The threshold behind the dispatch order (claim C40) *)

\* The score of the job with the id at the time of the call, with the
\* starvation threshold of the simulation's configuration.
ConfiguredScore(id) ==
  LET job == jobs[CHOOSE k \in DOMAIN jobs : jobs[k].id = id]
  IN calculateEffectivePriority(job, currentTime,
                                config.starvationThresholdSeconds)

\* C40: createPlan serves the queue in the order of the scores under the
\* configured starvation threshold: of two routes of the plan it returns,
\* the earlier one is for a job whose score under
\* config.starvationThresholdSeconds is not above the other's.
C40_OrderUsesConfiguredThreshold ==
  PlanCall
  => \A n, m \in 1..Len(call.result.agentPlans) :
       n < m
       => ConfiguredScore(call.result.agentPlans[n].jobIds[1])
            <= ConfiguredScore(call.result.agentPlans[m].jobIds[1])

====
